---------------------------- MODULE Spec2Model ----------------------------
(***************************************************************************)
(* Model of src/bot.py (TelegramAutoPostBot): the post wizard driven by    *)
(* the ConversationHandler, the per-user draft store (posts_data), the     *)
(* per-user channel registry (user_channels), the daily schedule registry  *)
(* (scheduler.add_job) and the broadcast engine (post_to_channels).        *)
(*                                                                         *)
(* Texts are sequences of one-character strings.  A handler runs as one    *)
(* action: the Application is built without concurrent_updates, so updates *)
(* are handled one at a time.  post_to_channels is split at its awaits,    *)
(* because scheduler jobs run as tasks of the same event loop and          *)
(* interleave with the handlers and with each other at every await.        *)
(* One conversation per user is modelled (the user's private chat).        *)
(***************************************************************************)
EXTENDS Integers, Sequences, FiniteSets, TLC

\* ------------------------------------------------------------------ bounds
MaxChannels == 2     \* longest channel list a user builds
MaxJobs == 1         \* most schedule entries registered in one behaviour
MaxTasks == 2        \* most registry commands suspended at the same time
MaxLen == 3          \* longest title drawn from the whole alphabet

\* ------------------------------------------------- conversation states
THUMBNAIL == 0
VIDEO_LINK == 1
TITLE == 2
SCHEDULE_TIME == 3
CHANNELS == 4
END == -1

TitleLimit == 100
ErrorCut == 50

Users == {1}

\* ------------------------------------------------------------ text helpers
None == << >>
Some(v) == << v >>

Min(a, b) == IF a < b THEN a ELSE b

Take(s, n) == SubSeq(s, 1, Min(n, Len(s)))

Drop(s, n) == SubSeq(s, n + 1, Len(s))

StartsWith(s, p) == Len(s) >= Len(p) /\ SubSeq(s, 1, Len(p)) = p

Contains(s, p) ==
    \E i \in 0..(Len(s) - Len(p)) : SubSeq(s, i + 1, i + Len(p)) = p

IsSpace(c) == c = " "

RECURSIVE LStrip(_)
LStrip(s) == IF s # << >> /\ IsSpace(Head(s)) THEN LStrip(Tail(s)) ELSE s

RECURSIVE RStrip(_)
RStrip(s) ==
    IF s # << >> /\ IsSpace(s[Len(s)]) THEN RStrip(SubSeq(s, 1, Len(s) - 1)) ELSE s

Strip(s) == RStrip(LStrip(s))

RECURSIVE LStripChar(_, _)
LStripChar(s, c) == IF s # << >> /\ Head(s) = c THEN LStripChar(Tail(s), c) ELSE s

UpperCase ==
    <<"A", "B", "C", "D", "E", "F", "G", "H", "I", "J", "K", "L", "M",
      "N", "O", "P", "Q", "R", "S", "T", "U", "V", "W", "X", "Y", "Z">>

LowerCase ==
    <<"a", "b", "c", "d", "e", "f", "g", "h", "i", "j", "k", "l", "m",
      "n", "o", "p", "q", "r", "s", "t", "u", "v", "w", "x", "y", "z">>

LowerChar(c) ==
    IF \E i \in 1..Len(UpperCase) : UpperCase[i] = c
    THEN LowerCase[CHOOSE i \in 1..Len(UpperCase) : UpperCase[i] = c]
    ELSE c

\* str.lower()
RECURSIVE Lower(_)
Lower(s) == IF s = << >> THEN << >> ELSE <<LowerChar(Head(s))>> \o Lower(Tail(s))

Digits == <<"0", "1", "2", "3", "4", "5", "6", "7", "8", "9">>

IsDigit(c) == \E i \in 1..10 : Digits[i] = c

DigitVal(c) == (CHOOSE i \in 1..10 : Digits[i] = c) - 1

IsDigitStr(s) == s # << >> /\ \A i \in 1..Len(s) : IsDigit(s[i])

RECURSIVE DigitsVal(_)
DigitsVal(s) ==
    IF s = << >> THEN 0
    ELSE DigitsVal(SubSeq(s, 1, Len(s) - 1)) * 10 + DigitVal(s[Len(s)])

RemoveUnderscores(s) == SelectSeq(s, LAMBDA c : c # "_")

\* int(text): surrounding blanks are ignored, one sign is allowed, digits may be
\* grouped by single underscores; anything else raises ValueError.
IntBody(s) ==
    LET t == Strip(s)
    IN IF t # << >> /\ (Head(t) = "-" \/ Head(t) = "+") THEN Tail(t) ELSE t

IntOk(s) ==
    LET b == IntBody(s)
    IN /\ b # << >>
       /\ \A i \in 1..Len(b) : IsDigit(b[i]) \/ b[i] = "_"
       /\ IsDigit(b[1]) /\ IsDigit(b[Len(b)])
       /\ \A i \in 1..(Len(b) - 1) : ~(b[i] = "_" /\ b[i + 1] = "_")

IntVal(s) ==
    LET t == Strip(s)
        v == DigitsVal(RemoveUnderscores(IntBody(s)))
    IN IF Head(t) = "-" THEN 0 - v ELSE v

RECURSIVE Split(_, _)
Split(s, sep) ==
    IF \E i \in 1..Len(s) : s[i] = sep
    THEN LET k == CHOOSE i \in 1..Len(s) : s[i] = sep /\ \A j \in 1..(i - 1) : s[j] # sep
         IN << SubSeq(s, 1, k - 1) >> \o Split(Drop(s, k), sep)
    ELSE << s >>

Rep(c, n) == [i \in 1..n |-> c]

\* ------------------------------------------------------------ input texts
HttpLink == <<"h", "t", "t", "p", ":", "/", "/", "a">>
HttpsLink == <<"h", "t", "t", "p", "s", ":", "/", "/", "b", ".", "c">>
FtpLink == <<"f", "t", "p", ":", "/", "/", "a">>
LinkTexts == {HttpLink, HttpsLink, FtpLink}
PaddedLink == <<" ">> \o HttpLink \o <<" ">>
InnerLink == <<"x", " ">> \o HttpLink
HttpWord == <<"h", "t", "t", "p">>
WizardLinks == LinkTexts \cup {PaddedLink, InnerLink, HttpWord}

ShortTitle == <<"A">>
MarkTitle == <<"B", "_">>
TitleTexts == {ShortTitle, MarkTitle}
FullTitle == Rep("t", TitleLimit)
LongTitle == Rep("t", TitleLimit + 1)
PaddedTitle == <<" ">> \o ShortTitle \o <<" ">>
PaddedFullTitle == <<" ">> \o FullTitle \o <<" ">>
WizardTitles == {ShortTitle, FullTitle, LongTitle, PaddedTitle, PaddedFullTitle}

T0900 == <<"0", "9", ":", "0", "0">>
T2359 == <<"2", "3", ":", "5", "9">>
T2500 == <<"2", "5", ":", "0", "0">>
T0960 == <<"9", ":", "6", "0">>
TNoColon == <<"1", "2">>
TWords == <<"a", ":", "b">>
TimeTexts == {T0900, T2359, T2500, T0960, TNoColon, TWords}

\* the attachment of a message that passes the THUMBNAIL filter (line 818)
Media == {[kind |-> "photo", file_id |-> "p1"],
          [kind |-> "video", file_id |-> "v1"],
          [kind |-> "animation", file_id |-> "a1"],
          [kind |-> "document", file_id |-> "d1"]}

HandleText == <<"@", "p", "u", "b">>
IdText == <<"-", "1", "0", "0", "1">>
ChannelTexts == {HandleText, IdText}

\* a ChannelId is an int or a str
IntId(n) == <<"int", n>>
StrId(s) == <<"str", s>>

\* ------------------------------------------ results of the platform calls
ChatNotFound == <<"C", "h", "a", "t", " ", "n", "o", "t", " ", "f", "o", "u", "n", "d">>
LongError == Rep("x", ErrorCut + 1)
MigratedError == <<"m", "i", "g", "r", "a", "t", "e", "d">>
NoRights == <<"n", "o", " ", "r", "i", "g", "h", "t", "s">>
LookupErrMsgs == {ChatNotFound, NoRights}
ErrMsgs == {ChatNotFound, LongError}

\* the text verify_bot_admin looks for in a BadRequest
chat_not_found == <<"c", "h", "a", "t", " ", "n", "o", "t", " ", "f", "o", "u", "n", "d">>

Member(status, can_post) ==
    [tag |-> "member", status |-> status, can_post |-> can_post, msg |-> << >>]

Failure(tag, msg) == [tag |-> tag, status |-> "", can_post |-> "", msg |-> msg]

\* get_chat_member: the bot's membership, or an error.  can_post is the
\* can_post_messages attribute: "true", "false", "none" (present, None) or
\* "absent" (the member object has no such attribute).
MemberResults ==
    {Member("creator", "absent"), Member("member", "absent"), Member("left", "absent")}
    \cup {Member("administrator", f) : f \in {"true", "false", "none", "absent"}}
    \cup {Failure("Forbidden", << >>)}
    \cup {Failure(t, m) : t \in {"BadRequest", "Other"}, m \in LookupErrMsgs}

\* send_photo / send_video / send_animation
SendResults ==
    {Failure("ok", << >>), Failure("Forbidden", << >>),
     Failure("ChatMigrated", MigratedError)}
    \cup {Failure(t, m) : t \in {"BadRequest", "Other"}, m \in ErrMsgs}

\* A reason is a fixed text followed by the text taken from the platform.
Reason(fixed, text) == <<fixed, text>>

NoReason == Reason("None", << >>)

\* the check as it would be if a member object without the attribute counted
\* as one without the right
verify_bot_admin_strict(r) ==
    IF r.tag = "member"
    THEN IF r.status \in {"administrator", "creator"}
         THEN IF r.status = "creator"
              THEN <<TRUE, NoReason>>
              ELSE IF r.can_post = "true"
                   THEN <<TRUE, NoReason>>
                   ELSE <<FALSE, Reason("Bot doesn't have 'Post Messages' permission", << >>)>>
         ELSE <<FALSE, Reason("Bot is not an admin (Status: )", <<r.status>>)>>
    ELSE IF r.tag = "Forbidden"
    THEN <<FALSE, Reason("Bot is not a member of this channel", << >>)>>
    ELSE IF r.tag = "BadRequest"
    THEN IF Contains(Lower(r.msg), chat_not_found)
         THEN <<FALSE, Reason("Channel not found or bot was removed", << >>)>>
         ELSE <<FALSE, Reason("Cannot access channel: ", r.msg)>>
    ELSE <<FALSE, Reason("Error checking permissions: ", r.msg)>>

verify_bot_admin(r) ==
    IF r.tag = "member"
    THEN IF r.status \in {"administrator", "creator"}
         THEN IF r.status = "creator"
              THEN <<TRUE, NoReason>>
              ELSE IF r.can_post # "absent"
                   THEN IF r.can_post = "true"
                        THEN <<TRUE, NoReason>>
                        ELSE <<FALSE, Reason("Bot doesn't have 'Post Messages' permission", << >>)>>
                   ELSE <<TRUE, NoReason>>
         ELSE <<FALSE, Reason("Bot is not an admin (Status: )", <<r.status>>)>>
    ELSE IF r.tag = "Forbidden"
    THEN <<FALSE, Reason("Bot is not a member of this channel", << >>)>>
    ELSE IF r.tag = "BadRequest"
    THEN IF Contains(Lower(r.msg), chat_not_found)
         THEN <<FALSE, Reason("Channel not found or bot was removed", << >>)>>
         ELSE <<FALSE, Reason("Cannot access channel: ", r.msg)>>
    ELSE <<FALSE, Reason("Error checking permissions: ", r.msg)>>

\* the except clauses of the per-channel try of post_to_channels
SendFailureReason(r) ==
    IF r.tag = "Forbidden" THEN Reason("Bot is not admin or was removed", << >>)
    ELSE IF r.tag = "BadRequest" THEN Reason("Invalid request: ", r.msg)
    ELSE Reason("Error: ", Take(r.msg, ErrorCut))

\* --------------------------------------------------------- post rendering
\* the backquote cannot be written in a TLA+ string: Backquote stands for it
Backquote == "backquote"

escape_chars ==
    <<"_", "*", "[", "]", "(", ")", "~", Backquote, ">", "#", "+", "-", "=", "|", "{", "}", ".", "!">>

\* text.replace(c, "\\" + c) for a one-character c, by halves
RECURSIVE Replace(_, _)
Replace(text, c) ==
    IF text = << >> THEN << >>
    ELSE IF Len(text) = 1 THEN (IF text[1] = c THEN <<"\\", c>> ELSE text)
    ELSE LET half == Len(text) \div 2
         IN Replace(SubSeq(text, 1, half), c) \o Replace(SubSeq(text, half + 1, Len(text)), c)

RECURSIVE EscapeFrom(_, _)
EscapeFrom(text, i) ==
    IF i > Len(escape_chars) THEN text
    ELSE EscapeFrom(Replace(text, escape_chars[i]), i + 1)

\* the escape as it would be if "_" were not in escape_chars
escape_markdown_short(text) == EscapeFrom(text, 2)

escape_markdown(text) == EscapeFrom(text, 1)

Untitled == <<"U", "n", "t", "i", "t", "l", "e", "d">>

\* the fixed framing of the post, one element per fixed piece
format_post(post_data) ==
    LET title == IF post_data.title = None THEN Untitled ELSE post_data.title[1]
        video_link == IF post_data.video_link = None THEN << >> ELSE post_data.video_link[1]
    IN <<"HEADER *">> \o escape_markdown(title) \o <<"* WATCH NOW:">>
       \o escape_markdown(video_link) \o <<"JOIN @NeonGhost\\_Network">>

\* ------------------------------------------------------------------ state
VARIABLES
    posts_data,     \* user -> None, or Some(draft)
    user_channels,  \* user -> None, or Some(list of ChannelId)
    conv,           \* user -> state of the user's conversation, END when none
    jobs,           \* the jobs added to the scheduler, in order of registration
    run,            \* invocation -> the frame of its post_to_channels call
    calls,          \* task -> the frame of its registry command, when suspended
    last            \* the update handled last and what the handler did

vars == <<posts_data, user_channels, conv, jobs, run, calls, last>>

EmptyDraft ==
    [thumbnail |-> None, video_link |-> None, title |-> None, schedule_time |-> None]

HasDraft(u) == posts_data[u] # None

Draft(u) == posts_data[u][1]

\* user_channels.get(user_id, [])
Channels(u) == IF user_channels[u] = None THEN << >> ELSE user_channels[u][1]

InList(ch, list) == \E i \in 1..Len(list) : list[i] = ch

\* the jobs of the specification in which a user registers a second schedule
MaxEntries == MaxJobs + 1

\* invocation 0 is the call made by handle_post_action; invocation j >= 1 is
\* the run of job j (the scheduler runs at most one instance of a job)
Invocations == 0..MaxEntries

\* The frame of a post_to_channels call: where it is suspended (pc), its
\* locals, the position of the iterator of "for channel in channels" (idx),
\* the value it returned (ret) and the platform calls it has made (log).
IdleFrame ==
    [pc |-> "idle", user |-> 0, post_data |-> None, idx |-> 0, channel |-> None,
     caption |-> << >>, thumbnail |-> None, success_count |-> 0,
     failed_channels |-> << >>, ret |-> None, log |-> << >>, critical |-> FALSE]

\* ret is what post_to_channels returned to the handler: the number of
\* successes and the number of failure entries
\* admin is the verification status a registry command reported: "yes",
\* "no", or "none" when the reply names no status; listing is the list of
\* channels /channels replied with
NoUpdate ==
    [op |-> "none", user |-> 0, fault |-> "none", out |-> "none", ret |-> <<0, 0>>,
     admin |-> "none", listing |-> << >>]

Handled(op, u, fault, out) ==
    [op |-> op, user |-> u, fault |-> fault, out |-> out, ret |-> <<0, 0>>,
     admin |-> "none", listing |-> << >>]

\* the registry commands that can be suspended at a platform call at the same
\* time
Tasks == 1..MaxTasks

\* The frame of an add_channel, handle_channel_forward or remove_channel call:
\* where it is suspended (pc) and its locals.
IdleCall ==
    [pc |-> "idle", op |-> "none", user |-> 0, channel |-> None, is_admin |-> FALSE]

Init ==
    /\ posts_data = [u \in Users |-> None]
    /\ user_channels = [u \in Users |-> None]
    /\ conv = [u \in Users |-> END]
    /\ jobs = << >>
    /\ run = [p \in Invocations |-> IdleFrame]
    /\ calls = [c \in Tasks |-> IdleCall]
    /\ last = NoUpdate

\* the channels of the user's list, as a set
InChannels(u) == {Channels(u)[i] : i \in 1..Len(Channels(u))}

\* no handler is suspended: the next update can be handled
HandlerFree == run[0].pc = "idle"

\* post_to_channels writes no shared state, so calls in progress at the same
\* time cannot influence each other: the model starts a call only when no
\* other call is in progress
NoCallInProgress == \A p \in Invocations : run[p].pc = "idle"

\* what a failing platform call inside a handler does: "none" - every call
\* succeeds; "body" - a call in the try body raises and the except clause
\* replies; "both" - the reply of the except clause raises too, so the
\* exception leaves the handler and the conversation keeps its state
Faults == {"none", "body", "both"}


\* The state a conversation handler leaves the conversation in: the value
\* returned by the try body, the value returned by the except clause when the
\* body raised, and the state as it was when the except clause raised too.
NextState(u, raised, fault, returned, onError) ==
    IF ~raised THEN returned
    ELSE IF fault = "both" THEN conv[u]
    ELSE onError

PutField(u, field, value) ==
    [posts_data EXCEPT ![u] = Some([Draft(u) EXCEPT ![field] = Some(value)])]

\* --------------------------------------------------------------- the wizard
\* new_post as it would be if it only tested "user_id not in user_channels"
new_post_any_list(u, fault) ==
    /\ HandlerFree
    /\ conv[u] = END
    /\ LET none == user_channels[u] = None
           raised == fault # "none"
       IN /\ posts_data' = IF none THEN posts_data
                           ELSE [posts_data EXCEPT ![u] = Some(EmptyDraft)]
          /\ conv' = [conv EXCEPT ![u] =
                        NextState(u, raised, fault, IF none THEN END ELSE THUMBNAIL, END)]
          /\ last' = Handled("new_post", u, fault,
                             IF none THEN "no_channels" ELSE "started")
    /\ UNCHANGED <<calls, user_channels, jobs, run>>

new_post(u, fault) ==
    /\ HandlerFree
    /\ conv[u] = END
    /\ LET none == Channels(u) = << >>
           raised == fault # "none"
       IN /\ posts_data' = IF none THEN posts_data
                           ELSE [posts_data EXCEPT ![u] = Some(EmptyDraft)]
          /\ conv' = [conv EXCEPT ![u] =
                        NextState(u, raised, fault, IF none THEN END ELSE THUMBNAIL, END)]
          /\ last' = Handled("new_post", u, fault,
                             IF none THEN "no_channels" ELSE "started")
    /\ UNCHANGED <<calls, user_channels, jobs, run>>

receive_thumbnail(u, m, fault) ==
    /\ HandlerFree
    /\ conv[u] = THUMBNAIL
    /\ LET media == m.kind \in {"photo", "video", "animation"}
           stored == media /\ HasDraft(u)
           raised == (media /\ ~HasDraft(u)) \/ fault # "none"
       IN /\ posts_data' = IF stored
                           THEN PutField(u, "thumbnail", [type |-> m.kind, file_id |-> m.file_id])
                           ELSE posts_data
          /\ conv' = [conv EXCEPT ![u] =
                        NextState(u, raised, fault,
                                  IF media THEN VIDEO_LINK ELSE THUMBNAIL, THUMBNAIL)]
          /\ last' = Handled("receive_thumbnail", u, fault,
                             IF stored THEN "stored" ELSE "rejected")
    /\ UNCHANGED <<calls, user_channels, jobs, run>>

IsUrl(link) == StartsWith(link, <<"h", "t", "t", "p", ":", "/", "/">>)
               \/ StartsWith(link, <<"h", "t", "t", "p", "s", ":", "/", "/">>)

\* receive_video_link as it would be if it knew the http:// prefix only
receive_video_link_http_only(u, text, fault) ==
    /\ HandlerFree
    /\ conv[u] = VIDEO_LINK
    /\ LET link == Strip(text)
           valid == StartsWith(link, <<"h", "t", "t", "p", ":", "/", "/">>)
           stored == valid /\ HasDraft(u)
           raised == (valid /\ ~HasDraft(u)) \/ fault # "none"
       IN /\ posts_data' = IF stored THEN PutField(u, "video_link", link) ELSE posts_data
          /\ conv' = [conv EXCEPT ![u] =
                        NextState(u, raised, fault,
                                  IF valid THEN TITLE ELSE VIDEO_LINK, VIDEO_LINK)]
          /\ last' = Handled("receive_video_link", u, fault,
                             IF stored THEN "stored" ELSE "rejected")
    /\ UNCHANGED <<calls, user_channels, jobs, run>>

receive_video_link(u, text, fault) ==
    /\ HandlerFree
    /\ conv[u] = VIDEO_LINK
    /\ LET link == Strip(text)
           valid == IsUrl(link)
           stored == valid /\ HasDraft(u)
           raised == (valid /\ ~HasDraft(u)) \/ fault # "none"
       IN /\ posts_data' = IF stored THEN PutField(u, "video_link", link) ELSE posts_data
          /\ conv' = [conv EXCEPT ![u] =
                        NextState(u, raised, fault,
                                  IF valid THEN TITLE ELSE VIDEO_LINK, VIDEO_LINK)]
          /\ last' = Handled("receive_video_link", u, fault,
                             IF stored THEN "stored" ELSE "rejected")
    /\ UNCHANGED <<calls, user_channels, jobs, run>>

\* receive_title as it would be if it returned the state after the next one
receive_title_skips(u, text, fault) ==
    /\ HandlerFree
    /\ conv[u] = TITLE
    /\ LET title == Strip(text)
           valid == ~(Len(title) > TitleLimit)
           stored == valid /\ HasDraft(u)
           raised == \/ valid /\ ~HasDraft(u)
                     \/ stored /\ Draft(u).video_link = None
                     \/ fault # "none"
       IN /\ posts_data' = IF stored THEN PutField(u, "title", title) ELSE posts_data
          /\ conv' = [conv EXCEPT ![u] =
                        NextState(u, raised, fault, IF valid THEN CHANNELS ELSE TITLE, TITLE)]
          /\ last' = Handled("receive_title", u, fault,
                             IF stored THEN "stored" ELSE "rejected")
    /\ UNCHANGED <<calls, user_channels, jobs, run>>

\* receive_title as it would be if it refused a title of exactly 100 characters
receive_title_off_by_one(u, text, fault) ==
    /\ HandlerFree
    /\ conv[u] = TITLE
    /\ LET title == Strip(text)
           valid == ~(Len(title) >= TitleLimit)
           stored == valid /\ HasDraft(u)
           raised == \/ valid /\ ~HasDraft(u)
                     \/ stored /\ Draft(u).video_link = None
                     \/ fault # "none"
       IN /\ posts_data' = IF stored THEN PutField(u, "title", title) ELSE posts_data
          /\ conv' = [conv EXCEPT ![u] =
                        NextState(u, raised, fault,
                                  IF valid THEN SCHEDULE_TIME ELSE TITLE, TITLE)]
          /\ last' = Handled("receive_title", u, fault,
                             IF stored THEN "stored" ELSE "rejected")
    /\ UNCHANGED <<calls, user_channels, jobs, run>>

receive_title(u, text, fault) ==
    /\ HandlerFree
    /\ conv[u] = TITLE
    /\ LET title == Strip(text)
           valid == ~(Len(title) > TitleLimit)
           stored == valid /\ HasDraft(u)
           \* the summary reads posts_data[user_id]['video_link']
           raised == \/ valid /\ ~HasDraft(u)
                     \/ stored /\ Draft(u).video_link = None
                     \/ fault # "none"
       IN /\ posts_data' = IF stored THEN PutField(u, "title", title) ELSE posts_data
          /\ conv' = [conv EXCEPT ![u] =
                        NextState(u, raised, fault,
                                  IF valid THEN SCHEDULE_TIME ELSE TITLE, TITLE)]
          /\ last' = Handled("receive_title", u, fault,
                             IF stored THEN "stored" ELSE "rejected")
    /\ UNCHANGED <<calls, user_channels, jobs, run>>

\* hour, minute = map(int, time_str.split(':')) and the range test
TimeParts(time_str) == Split(time_str, ":")

TimeOk(time_str) ==
    LET parts == TimeParts(time_str)
    IN /\ Len(parts) = 2
       /\ IntOk(parts[1]) /\ IntOk(parts[2])
       /\ 0 <= IntVal(parts[1]) /\ IntVal(parts[1]) <= 23
       /\ 0 <= IntVal(parts[2]) /\ IntVal(parts[2]) <= 59

\* receive_schedule_time while fewer than cap jobs are registered
Schedule(u, text, fault, cap) ==
    /\ HandlerFree
    /\ conv[u] = CHANNELS
    /\ LET time_str == Strip(text)
           valid == TimeOk(time_str)
           hour == IntVal(TimeParts(time_str)[1])
           minute == IntVal(TimeParts(time_str)[2])
           stored == valid /\ HasDraft(u)
           raised == (valid /\ ~HasDraft(u)) \/ fault # "none"
       IN /\ stored => Len(jobs) < cap
          /\ posts_data' = IF stored THEN PutField(u, "schedule_time", <<hour, minute>>)
                           ELSE posts_data
          /\ jobs' = IF stored
                     THEN Append(jobs, [user |-> u, hour |-> hour, minute |-> minute])
                     ELSE jobs
          /\ conv' = [conv EXCEPT ![u] =
                        NextState(u, raised, fault, IF valid THEN END ELSE CHANNELS, END)]
          /\ last' = Handled("receive_schedule_time", u, fault,
                             IF stored THEN "scheduled" ELSE "rejected")
    /\ UNCHANGED <<calls, user_channels, run>>

receive_schedule_time(u, text, fault) == Schedule(u, text, fault, MaxJobs)

\* cancel as it would be without "del posts_data[user_id]"
cancel_keeps(u, fault) ==
    /\ HandlerFree
    /\ conv[u] # END
    /\ fault \in {"none", "body"}
    /\ conv' = [conv EXCEPT ![u] = END]
    /\ last' = Handled("cancel", u, fault, "cancelled")
    /\ UNCHANGED <<calls, posts_data, user_channels, jobs, run>>

\* the fallback of every state; its except clause only logs
cancel(u, fault) ==
    /\ HandlerFree
    /\ conv[u] # END
    /\ fault \in {"none", "body"}
    /\ posts_data' = [posts_data EXCEPT ![u] = None]
    /\ conv' = [conv EXCEPT ![u] = END]
    /\ last' = Handled("cancel", u, fault, "cancelled")
    /\ UNCHANGED <<calls, user_channels, jobs, run>>

\* The handler the ConversationHandler gives an update of a conversation in
\* `state` to; kind is what the message carries ("text" is a text that is no
\* command and not forwarded, "callback" a pressed button).
Handler(state, kind) ==
    IF state = THUMBNAIL /\ kind \in {"photo", "video", "document", "animation"}
    THEN "receive_thumbnail"
    ELSE IF state = VIDEO_LINK /\ kind = "text" THEN "receive_video_link"
    ELSE IF state = TITLE /\ kind = "text" THEN "receive_title"
    ELSE IF state = SCHEDULE_TIME /\ kind = "callback" THEN "handle_post_action"
    ELSE IF state = CHANNELS /\ kind = "text" THEN "receive_schedule_time"
    ELSE "none"

UpdateKinds == {"photo", "video", "document", "animation", "text", "callback"}

\* an update no handler of the application matches: nothing runs, nothing is
\* sent
unmatched_update(u, kind) ==
    /\ HandlerFree
    /\ conv[u] # END
    /\ Handler(conv[u], kind) = "none"
    /\ last' = Handled("none", u, "none", "unmatched")
    /\ UNCHANGED <<calls, posts_data, user_channels, conv, jobs, run>>

\* ------------------------------------------------------ the channel registry
TMe == <<"t", ".", "m", "e", "/">>
TelegramMe == <<"t", "e", "l", "e", "g", "r", "a", "m", ".", "m", "e", "/">>

\* the parse as it would be if a bare name were stored as it is typed
AddChannelId_bare(channel_input) ==
    IF Contains(channel_input, TMe) \/ Contains(channel_input, TelegramMe)
    THEN LET parts == Split(channel_input, "/")
         IN Some(StrId(<<"@">> \o parts[Len(parts)]))
    ELSE IF StartsWith(channel_input, <<"-", "1", "0", "0">>)
            \/ IsDigitStr(LStripChar(channel_input, "-"))
    THEN IF IntOk(channel_input) THEN Some(IntId(IntVal(channel_input))) ELSE None
    ELSE Some(StrId(channel_input))

\* the identifier add_channel stores, or None when int() raises ValueError
AddChannelId(channel_input) ==
    IF Contains(channel_input, TMe) \/ Contains(channel_input, TelegramMe)
    THEN LET parts == Split(channel_input, "/")
         IN Some(StrId(<<"@">> \o parts[Len(parts)]))
    ELSE IF StartsWith(channel_input, <<"-", "1", "0", "0">>)
            \/ IsDigitStr(LStripChar(channel_input, "-"))
    THEN IF IntOk(channel_input) THEN Some(IntId(IntVal(channel_input))) ELSE None
    ELSE IF StartsWith(channel_input, <<"@">>)
    THEN Some(StrId(channel_input))
    ELSE Some(StrId(<<"@">> \o channel_input))

\* what the reply of an add says about the bot's rights in the channel
Status(is_admin) == IF is_admin THEN "yes" ELSE "no"

\* /addchannel as it would be if it appended without looking at the list
add_channel_appends(u, channel_input, r) ==
    /\ HandlerFree
    /\ LET parsed == AddChannelId(channel_input)
           list == Channels(u)
           stops == channel_input = << >> \/ parsed = None
       IN /\ ~stops => Len(list) < MaxChannels
          /\ user_channels' =
                IF stops THEN user_channels
                ELSE [user_channels EXCEPT ![u] = Some(Append(list, parsed[1]))]
          /\ last' = [Handled("add_channel", u, "none",
                              IF channel_input = << >> THEN "usage"
                              ELSE IF parsed = None THEN "invalid" ELSE "added")
                        EXCEPT !.admin = IF stops THEN "none"
                                         ELSE Status(verify_bot_admin(r)[1])]
    /\ UNCHANGED <<calls, posts_data, conv, jobs, run>>

\* /addchannel handled in one piece; r is the answer of get_chat_member.
\* channel_input is ' '.join(context.args), empty when there are no args.
add_channel(u, channel_input, r) ==
    /\ HandlerFree
    /\ LET parsed == AddChannelId(channel_input)
           list == Channels(u)
           stops == channel_input = << >> \/ parsed = None
           added == ~stops /\ ~InList(parsed[1], list)
       IN /\ added => Len(list) < MaxChannels
          /\ user_channels' =
                IF stops THEN user_channels
                ELSE [user_channels EXCEPT ![u] =
                        Some(IF added THEN Append(list, parsed[1]) ELSE list)]
          /\ last' = [Handled("add_channel", u, "none",
                              IF channel_input = << >> THEN "usage"
                              ELSE IF parsed = None THEN "invalid"
                              ELSE IF added THEN "added" ELSE "exists")
                        EXCEPT !.admin = IF stops THEN "none"
                                         ELSE Status(verify_bot_admin(r)[1])]
    /\ UNCHANGED <<calls, posts_data, conv, jobs, run>>

\* the identifier remove_channel looks for
RemoveChannelId(channel_input) ==
    IF StartsWith(channel_input, <<"-">>) /\ IntOk(channel_input)
    THEN IntId(IntVal(channel_input))
    ELSE StrId(channel_input)

\* list.remove(channel): the first occurrence goes
ListRemove(list, ch) ==
    LET k == CHOOSE i \in 1..Len(list) : list[i] = ch /\ \A j \in 1..(i - 1) : list[j] # ch
    IN SubSeq(list, 1, k - 1) \o SubSeq(list, k + 1, Len(list))

remove_channel(u, channel_input) ==
    /\ HandlerFree
    /\ LET channel == RemoveChannelId(channel_input)
           found == user_channels[u] # None /\ InList(channel, Channels(u))
           removed == channel_input # << >> /\ found
       IN /\ user_channels' =
                IF removed
                THEN [user_channels EXCEPT ![u] = Some(ListRemove(Channels(u), channel))]
                ELSE user_channels
          /\ last' = Handled("remove_channel", u, "none",
                             IF channel_input = << >> THEN "usage"
                             ELSE IF removed THEN "removed" ELSE "not_found")
    /\ UNCHANGED <<calls, posts_data, conv, jobs, run>>

\* a message forwarded from the channel channel_id, handled in one piece; r is
\* the answer of get_chat_member
handle_channel_forward(u, channel_id, r) ==
    /\ HandlerFree
    /\ LET list == Channels(u)
           added == ~InList(IntId(channel_id), list)
       IN /\ added => Len(list) < MaxChannels
          /\ user_channels' = [user_channels EXCEPT ![u] =
                Some(IF added THEN Append(list, IntId(channel_id)) ELSE list)]
          /\ last' = [Handled("handle_channel_forward", u, "none",
                              IF added THEN "added" ELSE "exists")
                        EXCEPT !.admin = Status(verify_bot_admin(r)[1])]
    /\ UNCHANGED <<calls, posts_data, conv, jobs, run>>

\* get_chat: the chat with its title, or an error
ChannelTitle == <<"N", "e", "w", "s">>
ChatResults == {[tag |-> "ok", title |-> ChannelTitle, msg |-> << >>],
                [tag |-> "error", title |-> << >>, msg |-> ChatNotFound]}

\* str(chat_id)
StrOf(chat_id) == <<"str()", chat_id>>

\* the name of the chat, or the id as text and the error
get_chat_info(chat_id, c) ==
    IF c.tag = "ok" THEN <<c.title, None>> ELSE <<StrOf(chat_id), Some(c.msg)>>

\* one block of the text of /channels: the mark, the id, the name, and the
\* reason when the bot has no rights
ListingEntry(ch, c, r) ==
    LET chat_name == get_chat_info(ch, c)[1]
        res == verify_bot_admin(r)
    IN [status |-> Status(res[1]), channel |-> ch, name |-> chat_name,
        reason |-> IF res[1] THEN None ELSE Some(res[2])]

\* the listing as it would be if the loop ended at the first channel the bot
\* has no rights in
ListingUpTo(list, infos, answers) ==
    LET bad == {i \in 1..Len(list) : ~verify_bot_admin(answers[i])[1]}
        n == IF bad = {} THEN Len(list) ELSE (CHOOSE i \in bad : \A j \in bad : i <= j) - 1
    IN [i \in 1..n |-> ListingEntry(list[i], infos[i], answers[i])]

\* the blocks of the text of /channels; infos[i] and answers[i] are what
\* get_chat and get_chat_member answer for the i-th channel
Listing(list, infos, answers) ==
    [i \in 1..Len(list) |-> ListingEntry(list[i], infos[i], answers[i])]

\* /channels
manage_channels(u, infos, answers, fault) ==
    /\ HandlerFree
    /\ last' = IF fault = "none"
               THEN [Handled("manage_channels", u, fault,
                             IF Channels(u) # << >> THEN "listed" ELSE "no_channels")
                       EXCEPT !.listing = Listing(Channels(u), infos, answers)]
               ELSE Handled("manage_channels", u, fault, "failed")
    /\ UNCHANGED <<calls, posts_data, user_channels, conv, jobs, run>>

\* ------------------------------------- the registry commands, await by await
\* The same three handlers as tasks that are suspended at their platform
\* calls, so that several of them can be in progress at the same time.
Suspended(op, u, channel, pc) ==
    [pc |-> pc, op |-> op, user |-> u, channel |-> Some(channel), is_admin |-> FALSE]

\* /addchannel up to "await self.verify_bot_admin(channel, context)"
add_channel_begins(c, u, channel_input) ==
    /\ calls[c].pc = "idle"
    /\ LET parsed == AddChannelId(channel_input)
       IN IF channel_input = << >> \/ parsed = None
          THEN /\ last' = Handled("add_channel", u, "none",
                                  IF channel_input = << >> THEN "usage" ELSE "invalid")
               /\ UNCHANGED calls
          ELSE /\ calls' = [calls EXCEPT ![c] =
                              Suspended("add_channel", u, parsed[1], "verify")]
               /\ UNCHANGED last
    /\ UNCHANGED <<posts_data, user_channels, conv, jobs, run>>

\* a message forwarded from the channel channel_id, up to
\* "await self.verify_bot_admin(channel_id, context)"
handle_channel_forward_begins(c, u, channel_id) ==
    /\ calls[c].pc = "idle"
    /\ calls' = [calls EXCEPT ![c] =
                   Suspended("handle_channel_forward", u, IntId(channel_id), "verify")]
    /\ UNCHANGED <<posts_data, user_channels, conv, jobs, run, last>>

\* the store as it would be without the test of the list
Store_untested(c, is_admin) ==
    LET f == calls[c]
        list == Channels(f.user)
    IN /\ Len(list) < MaxChannels
       /\ user_channels' = [user_channels EXCEPT ![f.user] =
                              Some(Append(list, f.channel[1]))]
       /\ last' = [Handled(f.op, f.user, "none", "added")
                     EXCEPT !.admin = Status(is_admin)]
       /\ calls' = [calls EXCEPT ![c] = IdleCall]

\* "if user_id not in user_channels ... if channel not in ... append" and the
\* reply: no await separates the test from the append
Store(c, is_admin) ==
    LET f == calls[c]
        list == Channels(f.user)
        added == ~InList(f.channel[1], list)
    IN /\ added => Len(list) < MaxChannels
       /\ user_channels' = [user_channels EXCEPT ![f.user] =
                              Some(IF added THEN Append(list, f.channel[1]) ELSE list)]
       /\ last' = [Handled(f.op, f.user, "none", IF added THEN "added" ELSE "exists")
                     EXCEPT !.admin = Status(is_admin)]
       /\ calls' = [calls EXCEPT ![c] = IdleCall]

\* verify_bot_admin returns to add_channel, which goes on to
\* "await self.get_chat_info(channel, context)", or to handle_channel_forward,
\* which stores the channel
lookup_returns(c, r) ==
    /\ calls[c].pc = "verify"
    /\ LET is_admin == verify_bot_admin(r)[1]
       IN IF calls[c].op = "add_channel"
          THEN /\ calls' = [calls EXCEPT ![c].pc = "info", ![c].is_admin = is_admin]
               /\ UNCHANGED <<user_channels, last>>
          ELSE Store(c, is_admin)
    /\ UNCHANGED <<posts_data, conv, jobs, run>>

\* /removechannel up to "await self.get_chat_info(channel, context)", which
\* it reaches when the channel is in the list
remove_channel_begins(c, u, channel_input) ==
    /\ calls[c].pc = "idle"
    /\ LET channel == RemoveChannelId(channel_input)
           found == user_channels[u] # None /\ InList(channel, Channels(u))
       IN IF channel_input = << >> \/ ~found
          THEN /\ last' = Handled("remove_channel", u, "none",
                                  IF channel_input = << >> THEN "usage" ELSE "not_found")
               /\ UNCHANGED calls
          ELSE /\ calls' = [calls EXCEPT ![c] =
                              Suspended("remove_channel", u, channel, "info")]
               /\ UNCHANGED last
    /\ UNCHANGED <<posts_data, user_channels, conv, jobs, run>>

\* "user_channels[user_id].remove(channel)": list.remove raises ValueError
\* when another command has removed the channel meanwhile, and the except
\* clause replies
Remove(c) ==
    LET f == calls[c]
        found == InList(f.channel[1], Channels(f.user))
    IN /\ user_channels' =
             IF found
             THEN [user_channels EXCEPT ![f.user] =
                     Some(ListRemove(Channels(f.user), f.channel[1]))]
             ELSE user_channels
       /\ last' = Handled("remove_channel", f.user, "none",
                          IF found THEN "removed" ELSE "error")
       /\ calls' = [calls EXCEPT ![c] = IdleCall]

\* get_chat_info returns (it raises nothing): add_channel stores the channel,
\* remove_channel removes it
chat_info_returns(c) ==
    /\ calls[c].pc = "info"
    /\ IF calls[c].op = "add_channel" THEN Store(c, calls[c].is_admin) ELSE Remove(c)
    /\ UNCHANGED <<posts_data, conv, jobs, run>>

\* ------------------------------------------------------ the broadcast engine
NotApplicable == StrId(<<"N", "/", "A">>)

Return(f, success, failed) ==
    [IdleFrame EXCEPT !.pc = "done", !.user = f.user, !.post_data = f.post_data,
                      !.ret = Some(<<success, failed>>), !.log = f.log]

\* the outer except clause: "return success_count, failed_channels".  The
\* frame keeps the failures recorded channel by channel before the exception.
Critical(f) ==
    [Return(f, f.success_count, f.failed_channels)
       EXCEPT !.critical = TRUE, !.failed_channels = f.failed_channels]

\* the head of "for channel in channels": the iterator reads the live list
LoopHead(f) ==
    LET channels == Channels(f.user)
    IN IF f.idx < Len(channels)
       THEN [f EXCEPT !.idx = f.idx + 1,
                      !.channel = Some(channels[f.idx + 1]),
                      !.pc = "verify",
                      !.log = Append(f.log, <<"get_chat_member", channels[f.idx + 1]>>)]
       ELSE Return(f, f.success_count, f.failed_channels)

\* post_to_channels as it would be without the test of the channel list
Begin_unchecked(u) ==
    LET f == [IdleFrame EXCEPT !.user = u]
    IN IF posts_data[u] = None \/ Draft(u) = EmptyDraft
       THEN Return(f, 0, <<<<NotApplicable, Reason("No post data", << >>)>>>>)
       ELSE IF Draft(u).thumbnail = None
       THEN Critical(f)
       ELSE LoopHead([f EXCEPT !.post_data = Some(Draft(u)),
                               !.caption = format_post(Draft(u)),
                               !.thumbnail = Draft(u).thumbnail])

\* post_to_channels as it would be if a job posted only the draft it was
\* registered with (the one that carries the schedule time)
Begin_registered(u) ==
    LET f == [IdleFrame EXCEPT !.user = u]
    IN IF posts_data[u] = None \/ Draft(u) = EmptyDraft
          \/ (jobs # << >> /\ Draft(u).schedule_time = None)
       THEN Return(f, 0, <<<<NotApplicable, Reason("No post data", << >>)>>>>)
       ELSE IF Channels(u) = << >>
       THEN Return(f, 0, <<<<NotApplicable, Reason("No channels configured", << >>)>>>>)
       ELSE IF Draft(u).thumbnail = None
       THEN Critical(f)
       ELSE LoopHead([f EXCEPT !.post_data = Some(Draft(u)),
                               !.caption = format_post(Draft(u)),
                               !.thumbnail = Draft(u).thumbnail])

\* post_to_channels up to its first await
Begin(u) ==
    LET f == [IdleFrame EXCEPT !.user = u]
    IN IF posts_data[u] = None \/ Draft(u) = EmptyDraft
       THEN Return(f, 0, <<<<NotApplicable, Reason("No post data", << >>)>>>>)
       ELSE IF Channels(u) = << >>
       THEN Return(f, 0, <<<<NotApplicable, Reason("No channels configured", << >>)>>>>)
       ELSE IF Draft(u).thumbnail = None
       THEN Critical(f)
       ELSE LoopHead([f EXCEPT !.post_data = Some(Draft(u)),
                               !.caption = format_post(Draft(u)),
                               !.thumbnail = Draft(u).thumbnail])

SendCall(type) ==
    IF type = "photo" THEN "send_photo"
    ELSE IF type = "video" THEN "send_video"
    ELSE "send_animation"

\* the loop as it would be if a channel that fails verification ended it
AfterVerify_aborts(f, r) ==
    LET res == verify_bot_admin(r)
        ch == f.channel[1]
    IN IF ~res[1]
       THEN Return(f, f.success_count, Append(f.failed_channels, <<ch, res[2]>>))
       ELSE IF f.thumbnail[1].type \in {"photo", "video", "animation"}
       THEN [f EXCEPT !.pc = "send",
                      !.log = Append(@, <<SendCall(f.thumbnail[1].type), ch,
                                          f.thumbnail[1].file_id, f.caption>>)]
       ELSE [f EXCEPT !.pc = "sleep", !.success_count = @ + 1]

\* the loop as it would be if every send took the caption and the attachment
\* from the draft as it is at the time of the send
AfterVerify_live(f, r) ==
    LET res == verify_bot_admin(r)
        ch == f.channel[1]
        live == HasDraft(f.user) /\ Draft(f.user).thumbnail # None
        thumbnail == IF live THEN Draft(f.user).thumbnail[1] ELSE f.thumbnail[1]
        caption == IF live THEN format_post(Draft(f.user)) ELSE f.caption
    IN IF ~res[1]
       THEN LoopHead([f EXCEPT !.failed_channels = Append(@, <<ch, res[2]>>)])
       ELSE [f EXCEPT !.pc = "send",
                      !.log = Append(@, <<SendCall(thumbnail.type), ch,
                                          thumbnail.file_id, caption>>)]

\* get_chat_member has answered r
AfterVerify(f, r) ==
    LET res == verify_bot_admin(r)
        ch == f.channel[1]
    IN IF ~res[1]
       THEN LoopHead([f EXCEPT !.failed_channels = Append(@, <<ch, res[2]>>)])
       ELSE IF f.thumbnail[1].type \in {"photo", "video", "animation"}
       THEN [f EXCEPT !.pc = "send",
                      !.log = Append(@, <<SendCall(f.thumbnail[1].type), ch,
                                          f.thumbnail[1].file_id, f.caption>>)]
       ELSE [f EXCEPT !.pc = "sleep", !.success_count = @ + 1]

\* the loop as it would be if the success counter were raised before the send
AfterSend_miscounts(f, r) ==
    IF r.tag = "ok"
    THEN [f EXCEPT !.pc = "sleep", !.success_count = @ + 1]
    ELSE LoopHead([f EXCEPT !.success_count = @ + 1,
                            !.failed_channels =
                               Append(@, <<f.channel[1], SendFailureReason(r)>>)])

\* the send has answered r
AfterSend(f, r) ==
    IF r.tag = "ok"
    THEN [f EXCEPT !.pc = "sleep", !.success_count = @ + 1]
    ELSE LoopHead([f EXCEPT !.failed_channels =
                               Append(@, <<f.channel[1], SendFailureReason(r)>>)])

verify_returns(p, r) ==
    /\ run[p].pc = "verify"
    /\ run' = [run EXCEPT ![p] = AfterVerify(run[p], r)]
    /\ UNCHANGED <<calls, posts_data, user_channels, conv, jobs, last>>

send_returns(p, r) ==
    /\ run[p].pc = "send"
    /\ run' = [run EXCEPT ![p] = AfterSend(run[p], r)]
    /\ UNCHANGED <<calls, posts_data, user_channels, conv, jobs, last>>

sleep_returns(p) ==
    /\ run[p].pc = "sleep"
    /\ run' = [run EXCEPT ![p] = LoopHead(run[p])]
    /\ UNCHANGED <<calls, posts_data, user_channels, conv, jobs, last>>

\* The delay is over and a statement outside the per-channel try raises: the
\* loop ends in the outer except clause.
critical_error(p) ==
    /\ run[p].pc = "sleep"
    /\ run' = [run EXCEPT ![p] = Critical(run[p])]
    /\ UNCHANGED <<calls, posts_data, user_channels, conv, jobs, last>>

\* ------------------------------------------------------------ the scheduler
\* the cron trigger of job j fires and no run of the job is in progress
\* the scheduler as it would be if a job posted only the draft it was
\* registered with: the draft whose schedule_time is the job's time
fire_own(j) ==
    /\ j \in 1..Len(jobs)
    /\ NoCallInProgress
    /\ LET u == jobs[j].user
           own == HasDraft(u) =>
                     Draft(u).schedule_time = Some(<<jobs[j].hour, jobs[j].minute>>)
       IN run' = [run EXCEPT ![j] =
                    IF own THEN Begin(u)
                    ELSE Return([IdleFrame EXCEPT !.user = u], 0,
                                <<<<NotApplicable, Reason("No post data", << >>)>>>>)]
    /\ UNCHANGED <<calls, posts_data, user_channels, conv, jobs, last>>

\* the scheduler calls post_to_channels(user_id, context) of job j
fire(j) ==
    /\ j \in 1..Len(jobs)
    /\ NoCallInProgress
    /\ run' = [run EXCEPT ![j] = Begin(jobs[j].user)]
    /\ UNCHANGED <<calls, posts_data, user_channels, conv, jobs, last>>

\* the end of a run as it would be if the trigger were a date and not a cron:
\* the scheduler removes a job that has no further run time
job_done_once(j) ==
    /\ j \in 1..Len(jobs)
    /\ run[j].pc = "done"
    /\ jobs' = SubSeq(jobs, 1, j - 1) \o SubSeq(jobs, j + 1, Len(jobs))
    /\ run' = [p \in Invocations |->
                 IF p < j THEN run[p] ELSE IF p < MaxEntries THEN run[p + 1] ELSE IdleFrame]
    /\ UNCHANGED <<calls, posts_data, user_channels, conv, last>>

\* the run of job j has returned; the scheduler drops the value
job_done(j) ==
    /\ j \in 1..Len(jobs)
    /\ run[j].pc = "done"
    /\ run' = [run EXCEPT ![j] = IdleFrame]
    /\ UNCHANGED <<calls, posts_data, user_channels, conv, jobs, last>>

\* ------------------------------------------------ the delivery choice step
Choices == {"post_now", "schedule_post"}

\* handle_post_action as it would be if it ended the wizard at once and left
\* post_to_channels running
handle_post_action_detached(u, data, fault) ==
    /\ HandlerFree
    /\ conv[u] = SCHEDULE_TIME
    /\ LET raised == fault # "none"
           posting == data = "post_now" /\ ~raised
       IN /\ posting => NoCallInProgress
          /\ run' = IF posting THEN [run EXCEPT ![0] = Begin(u)] ELSE run
          /\ conv' = [conv EXCEPT ![u] =
                        NextState(u, raised, fault,
                                  IF data = "post_now" THEN END ELSE CHANNELS, END)]
          /\ last' = Handled("handle_post_action", u, fault,
                             IF posting THEN "posting"
                             ELSE IF raised THEN "failed" ELSE "asked_time")
    /\ UNCHANGED <<calls, posts_data, user_channels, jobs>>

handle_post_action(u, data, fault) ==
    /\ HandlerFree
    /\ conv[u] = SCHEDULE_TIME
    /\ LET raised == fault # "none"
           posting == data = "post_now" /\ ~raised
       IN /\ posting => NoCallInProgress
          /\ run' = IF posting THEN [run EXCEPT ![0] = Begin(u)] ELSE run
          /\ conv' = IF posting THEN conv
                     ELSE [conv EXCEPT ![u] =
                             NextState(u, raised, fault,
                                       IF data = "post_now" THEN END ELSE CHANNELS, END)]
          /\ last' = Handled("handle_post_action", u, fault,
                             IF posting THEN "posting"
                             ELSE IF raised THEN "failed" ELSE "asked_time")
    /\ UNCHANGED <<calls, posts_data, user_channels, jobs>>

\* post_to_channels has returned to handle_post_action, which reports
post_now_returns(u, fault) ==
    /\ run[0].pc = "done"
    /\ run[0].user = u
    /\ run' = [run EXCEPT ![0] = IdleFrame]
    /\ conv' = [conv EXCEPT ![u] = NextState(u, fault # "none", fault, END, END)]
    /\ last' = [Handled("handle_post_action", u, fault, "posted")
                  EXCEPT !.ret = <<run[0].ret[1][1], Len(run[0].ret[1][2])>>]
    /\ UNCHANGED <<calls, posts_data, user_channels, jobs>>

\* ------------------------------------------------------------ specification
\* One step of the bot, its inputs drawn from the given sets: attachments,
\* link texts, title texts, time texts, channel identifier texts, answers of
\* get_chat_member to add_channel and to post_to_channels, and answers of the
\* send calls.
Step(media, links, titles, times, chans, lookups, members, sends) ==
    \/ \E u \in Users, fault \in Faults : new_post(u, fault)
    \/ \E u \in Users, m \in media, fault \in Faults : receive_thumbnail(u, m, fault)
    \/ \E u \in Users, text \in links, fault \in Faults : receive_video_link(u, text, fault)
    \/ \E u \in Users, text \in titles, fault \in Faults : receive_title(u, text, fault)
    \/ \E u \in Users, data \in Choices, fault \in Faults : handle_post_action(u, data, fault)
    \/ \E u \in Users, fault \in Faults : post_now_returns(u, fault)
    \/ \E u \in Users, text \in times, fault \in Faults : receive_schedule_time(u, text, fault)
    \/ \E u \in Users, fault \in Faults : cancel(u, fault)
    \/ \E u \in Users, text \in chans, r \in lookups : add_channel(u, text, r)
    \/ \E u \in Users, text \in chans : remove_channel(u, text)
    \/ \E j \in 1..MaxJobs : fire(j)
    \/ \E j \in 1..MaxJobs : job_done(j)
    \/ \E p \in Invocations, r \in members : verify_returns(p, r)
    \/ \E p \in Invocations, r \in sends : send_returns(p, r)
    \/ \E p \in Invocations : sleep_returns(p)

\* The whole bot, with one accepted and one refused input of every kind.
SysMedia == {m \in Media : m.kind \in {"photo", "document"}}
SysLinks == {HttpLink, FtpLink}
SysTitles == {ShortTitle}
SysTimes == {T0900, T2500}
SysMembers == {Member("creator", "absent"), Failure("Forbidden", << >>)}
SysLookups == {Member("creator", "absent")}
SysSends == {Failure("ok", << >>), Failure("BadRequest", ChatNotFound)}

Next ==
    Step(SysMedia, SysLinks, SysTitles, SysTimes, ChannelTexts, SysLookups, SysMembers,
         SysSends)

Spec == Init /\ [][Next]_vars

\* ------------------------------------------------- the broadcast engine alone
\* The wizard against every kind of update and every text of each step, with
\* one channel and a platform that answers every lookup and every send.  The
\* registered jobs do not fire: their runs write nothing the wizard reads.
WizardTimes == {T2359, T0960, TWords}

NextWizard ==
    \/ \E u \in Users, fault \in Faults : new_post(u, fault)
    \/ \E u \in Users, m \in Media, fault \in Faults : receive_thumbnail(u, m, fault)
    \/ \E u \in Users, text \in WizardLinks, fault \in Faults :
          receive_video_link(u, text, fault)
    \/ \E u \in Users, text \in WizardTitles, fault \in Faults : receive_title(u, text, fault)
    \/ \E u \in Users, data \in Choices, fault \in Faults : handle_post_action(u, data, fault)
    \/ \E u \in Users, fault \in Faults : post_now_returns(u, fault)
    \/ \E u \in Users, text \in WizardTimes, fault \in Faults :
          receive_schedule_time(u, text, fault)
    \/ \E u \in Users, fault \in Faults : cancel(u, fault)
    \/ \E u \in Users, kind \in UpdateKinds : unmatched_update(u, kind)
    \/ \E u \in Users : add_channel(u, HandleText, Member("creator", "absent"))
    \/ \E u \in Users : remove_channel(u, HandleText)
    \/ verify_returns(0, Member("creator", "absent"))
    \/ send_returns(0, Failure("ok", << >>))
    \/ sleep_returns(0)

SpecWizard == Init /\ [][NextWizard]_vars

\* The registry commands one at a time, as the application runs its handlers,
\* against texts of every form add_channel tells apart.
BareText == <<"p", "u", "b">>
LinkText == <<"h", "t", "t", "p", "s", ":", "/", "/">> \o TMe \o BareText
OldLinkText == TelegramMe \o BareText
PlainIdText == <<"7">>
GroupedIdText == <<"-", "1", "0", "0", "_", "1">>
BadIdText == <<"-", "1", "0", "0", "x">>
DashesText == <<"-", "-", "5">>
NoArgs == << >>

RegistryTexts ==
    {HandleText, BareText, LinkText, OldLinkText, IdText, PlainIdText, GroupedIdText,
     BadIdText, DashesText, NoArgs}

ForwardedIds == {-1001, -1002}

RegistryAnswers ==
    {Member("creator", "absent"), Member("administrator", "false"),
     Failure("Forbidden", << >>)}

NextRegistry ==
    \/ \E u \in Users, text \in RegistryTexts, r \in RegistryAnswers :
          add_channel(u, text, r)
    \/ \E u \in Users, id \in ForwardedIds, r \in RegistryAnswers :
          handle_channel_forward(u, id, r)
    \/ \E u \in Users, text \in RegistryTexts : remove_channel(u, text)

SpecRegistry == Init /\ [][NextRegistry]_vars

\* The bot with its scheduler running: the cron trigger of a registered job
\* comes round again and again, whatever else happens (strong fairness of its
\* fire), and a platform call that has been made returns (weak fairness of
\* the steps of post_to_channels).  The platform answers every call.
NextDaily ==
    \/ \E u \in Users : new_post(u, "none")
    \/ \E u \in Users : receive_thumbnail(u, [kind |-> "photo", file_id |-> "p1"], "none")
    \/ \E u \in Users : receive_video_link(u, HttpLink, "none")
    \/ \E u \in Users : receive_title(u, ShortTitle, "none")
    \/ \E u \in Users, data \in Choices : handle_post_action(u, data, "none")
    \/ \E u \in Users : post_now_returns(u, "none")
    \/ \E u \in Users : receive_schedule_time(u, T0900, "none")
    \/ \E u \in Users : cancel(u, "none")
    \/ \E u \in Users : add_channel(u, HandleText, Member("creator", "absent"))
    \/ \E u \in Users : remove_channel(u, HandleText)
    \/ \E j \in 1..MaxJobs : fire(j)
    \/ \E j \in 1..MaxJobs : job_done(j)
    \/ \E p \in Invocations : verify_returns(p, Member("creator", "absent"))
    \/ \E p \in Invocations : send_returns(p, Failure("ok", << >>))
    \/ \E p \in Invocations : sleep_returns(p)

\* fire(j) can be taken
FireDue(j) == j \in 1..Len(jobs) /\ NoCallInProgress

FairDaily ==
    /\ \A j \in 1..MaxJobs :
          /\ <>[](~FireDue(j)) \/ []<><<fire(j)>>_vars
          /\ WF_vars(job_done(j))
    /\ \A u \in Users : WF_vars(post_now_returns(u, "none"))
    /\ \A p \in Invocations :
          /\ WF_vars(verify_returns(p, Member("creator", "absent")))
          /\ WF_vars(send_returns(p, Failure("ok", << >>)))
          /\ WF_vars(sleep_returns(p))

SpecDaily == Init /\ [][NextDaily]_vars /\ FairDaily

\* /channels for every list the user builds, against every pair of answers of
\* the platform for every channel, while a draft is written.
ListingAnswers == {Member("creator", "absent"), Failure("BadRequest", NoRights)}

NextListing ==
    \/ \E u \in Users, infos \in [1..MaxChannels -> ChatResults],
          answers \in [1..MaxChannels -> ListingAnswers], fault \in Faults :
          manage_channels(u, infos, answers, fault)
    \/ \E u \in Users, text \in ChannelTexts : add_channel(u, text, Member("creator", "absent"))
    \/ \E u \in Users, text \in ChannelTexts : remove_channel(u, text)
    \/ \E u \in Users : new_post(u, "none")
    \/ \E u \in Users : receive_thumbnail(u, [kind |-> "photo", file_id |-> "p1"], "none")
    \/ \E u \in Users : cancel(u, "none")

SpecListing == Init /\ [][NextListing]_vars

\* Adds and removes with one text for every channel, a text of every form
\* add_channel accepts: the channel tells which text has added it.
BareX == <<"x">>
LinkY == TMe \o <<"y">>
RoundTexts == {HandleText, IdText, PlainIdText, BareX, LinkY}

NextRoundTrip ==
    \/ \E u \in Users, text \in RoundTexts, r \in RegistryAnswers : add_channel(u, text, r)
    \/ \E u \in Users, text \in RoundTexts : remove_channel(u, text)

SpecRoundTrip == Init /\ [][NextRoundTrip]_vars

\* The registry commands as tasks that overlap: each is suspended at its
\* platform calls while the others run.
TaskTexts == {HandleText, BareText, IdText, BadIdText, NoArgs}

NextRegistryTasks ==
    \/ \E c \in Tasks, u \in Users, text \in TaskTexts : add_channel_begins(c, u, text)
    \/ \E c \in Tasks, u \in Users, id \in ForwardedIds :
          handle_channel_forward_begins(c, u, id)
    \/ \E c \in Tasks, u \in Users, text \in TaskTexts : remove_channel_begins(c, u, text)
    \/ \E c \in Tasks : lookup_returns(c, Member("creator", "absent"))
    \/ \E c \in Tasks : chat_info_returns(c)

SpecRegistryTasks == Init /\ [][NextRegistryTasks]_vars

\* A schedule is registered; the draft and the channel list are any the bot
\* can hold afterwards, and stay as they are while post_to_channels runs
\* against every answer of the platform.
EngineChannelIds == {IntId(-1001), StrId(HandleText), StrId(<<"@", "x">>)}

RECURSIVE ListsUpTo(_)
ListsUpTo(n) ==
    IF n = 0 THEN {<< >>}
    ELSE LET shorter == ListsUpTo(n - 1)
         IN shorter \cup {Append(l, c) : l \in {k \in shorter : Len(k) = n - 1},
                                         c \in EngineChannelIds}

NoRepeat(l) == \A i, j \in 1..Len(l) : l[i] = l[j] => i = j

EngineLists == {l \in ListsUpTo(MaxChannels) : NoRepeat(l)}

Thumb(kind, file_id) == Some([type |-> kind, file_id |-> file_id])

EngineScenes ==
    {[conv |-> END, draft |-> None],
     [conv |-> THUMBNAIL, draft |-> Some(EmptyDraft)],
     [conv |-> VIDEO_LINK,
      draft |-> Some([EmptyDraft EXCEPT !.thumbnail = Thumb("photo", "p1")])],
     [conv |-> SCHEDULE_TIME,
      draft |-> Some([thumbnail |-> Thumb("video", "v1"), video_link |-> Some(HttpLink),
                      title |-> Some(ShortTitle), schedule_time |-> None])],
     [conv |-> END,
      draft |-> Some([thumbnail |-> Thumb("animation", "a1"),
                      video_link |-> Some(HttpsLink), title |-> Some(MarkTitle),
                      schedule_time |-> Some(<<9, 0>>)])]}

InitEngine ==
    /\ \E scene \in EngineScenes :
          /\ posts_data = [u \in Users |-> scene.draft]
          /\ conv = [u \in Users |-> scene.conv]
    /\ \E list \in EngineLists : user_channels = [u \in Users |-> Some(list)]
    /\ jobs = <<[user |-> 1, hour |-> 9, minute |-> 0]>>
    /\ run = [p \in Invocations |-> IdleFrame]
    /\ calls = [c \in Tasks |-> IdleCall]
    /\ last = NoUpdate

NextEngine ==
    \/ \E j \in 1..MaxJobs : fire(j)
    \/ \E j \in 1..MaxJobs : job_done(j)
    \/ \E u \in Users, fault \in Faults : handle_post_action(u, "post_now", fault)
    \/ \E u \in Users, fault \in Faults : post_now_returns(u, fault)
    \/ \E p \in Invocations, r \in MemberResults : verify_returns(p, r)
    \/ \E p \in Invocations, r \in SendResults : send_returns(p, r)
    \/ \E p \in Invocations : sleep_returns(p)

SpecEngine == InitEngine /\ [][NextEngine]_vars

\* The same with exceptions in the statements of post_to_channels that no
\* per-channel try covers.
NextEngineCritical ==
    \/ NextEngine
    \/ \E p \in Invocations : critical_error(p)

SpecEngineCritical == InitEngine /\ [][NextEngineCritical]_vars

\* A job runs while the user removes channels: /removechannel is handled while
\* post_to_channels is suspended at a platform call or at its delay.  No
\* channel is added, so a channel that is in the list has been there from the
\* start.
LiveTexts == {IdText, HandleText, <<"@", "x">>}

NextLive ==
    \/ \E j \in 1..MaxJobs : fire(j)
    \/ \E j \in 1..MaxJobs : job_done(j)
    \/ \E p \in Invocations, r \in SysMembers : verify_returns(p, r)
    \/ \E p \in Invocations, r \in SysSends : send_returns(p, r)
    \/ \E p \in Invocations : sleep_returns(p)
    \/ \E u \in Users, text \in LiveTexts : remove_channel(u, text)

SpecLive == InitEngine /\ [][NextLive]_vars

\* A job runs while the user goes through the wizard again: the steps of
\* /newpost are handled while post_to_channels is suspended at a platform call
\* or at its delay.
DraftMedia == {m \in Media : m.kind \in {"photo", "video"}}

NextDraft ==
    \/ \E j \in 1..MaxJobs : fire(j)
    \/ \E j \in 1..MaxJobs : job_done(j)
    \/ \E p \in Invocations : verify_returns(p, Member("creator", "absent"))
    \/ \E p \in Invocations : send_returns(p, Failure("ok", << >>))
    \/ \E p \in Invocations : sleep_returns(p)
    \/ \E u \in Users : new_post(u, "none")
    \/ \E u \in Users, m \in DraftMedia : receive_thumbnail(u, m, "none")
    \/ \E u \in Users : receive_video_link(u, HttpLink, "none")
    \/ \E u \in Users, text \in TitleTexts : receive_title(u, text, "none")
    \/ \E u \in Users : cancel(u, "none")

SpecDraft == InitEngine /\ [][NextDraft]_vars

\* A user with one channel registers a schedule, makes another draft and
\* registers a second schedule; after that the user goes on as they like.  The
\* first draft is D1, the second is D2, and what the user enters depends on how
\* many schedules there are (Len(jobs)).
D1 ==
    [thumbnail |-> Thumb("photo", "p1"), video_link |-> Some(HttpLink),
     title |-> Some(ShortTitle), schedule_time |-> Some(<<9, 0>>)]

D2 ==
    [thumbnail |-> Thumb("video", "v1"), video_link |-> Some(HttpLink),
     title |-> Some(MarkTitle), schedule_time |-> Some(<<23, 59>>)]

SharedMedia ==
    IF Len(jobs) = 0 THEN {[kind |-> "photo", file_id |-> "p1"]}
    ELSE IF Len(jobs) = 1 THEN {[kind |-> "video", file_id |-> "v1"]}
    ELSE DraftMedia

SharedTitles ==
    IF Len(jobs) = 0 THEN {ShortTitle}
    ELSE IF Len(jobs) = 1 THEN {MarkTitle}
    ELSE TitleTexts

SharedTime == IF Len(jobs) = 0 THEN T0900 ELSE T2359

InitShared ==
    /\ posts_data = [u \in Users |-> None]
    /\ user_channels = [u \in Users |-> Some(<<StrId(HandleText)>>)]
    /\ conv = [u \in Users |-> END]
    /\ jobs = << >>
    /\ run = [p \in Invocations |-> IdleFrame]
    /\ calls = [c \in Tasks |-> IdleCall]
    /\ last = NoUpdate

NextShared ==
    \/ \E u \in Users : new_post(u, "none")
    \/ \E u \in Users, m \in SharedMedia : receive_thumbnail(u, m, "none")
    \/ \E u \in Users : receive_video_link(u, HttpLink, "none")
    \/ \E u \in Users, text \in SharedTitles : receive_title(u, text, "none")
    \/ \E u \in Users : handle_post_action(u, "schedule_post", "none")
    \/ \E u \in Users : Schedule(u, SharedTime, "none", MaxEntries)
    \/ \E u \in Users : cancel(u, "none")
    \/ \E j \in 1..MaxEntries : fire(j)
    \/ \E j \in 1..MaxEntries : job_done(j)
    \/ \E p \in Invocations : verify_returns(p, Member("creator", "absent"))
    \/ \E p \in Invocations : send_returns(p, Failure("ok", << >>))
    \/ \E p \in Invocations : sleep_returns(p)

SpecShared == InitShared /\ [][NextShared]_vars


\* A job posts a draft whose title is any text over reserved characters, the
\* backslash and a letter, or the text of all reserved characters.
Alphabet == {"_", "*", ".", "\\", "a"}

RECURSIVE TextsUpTo(_)
TextsUpTo(n) ==
    IF n = 0 THEN {<< >>}
    ELSE LET shorter == TextsUpTo(n - 1)
         IN shorter \cup {Append(t, c) : t \in {s \in shorter : Len(s) = n - 1},
                                          c \in Alphabet}

EscapeTitles ==
    (TextsUpTo(MaxLen) \ {<< >>}) \cup {escape_chars}
       \cup {<<escape_chars[i]>> : i \in 1..Len(escape_chars)}

InitEscape ==
    /\ \E title \in EscapeTitles :
          posts_data = [u \in Users |->
                          Some([thumbnail |-> Thumb("photo", "p1"),
                                video_link |-> Some(HttpLink), title |-> Some(title),
                                schedule_time |-> Some(<<9, 0>>)])]
    /\ user_channels = [u \in Users |-> Some(<<StrId(HandleText)>>)]
    /\ conv = [u \in Users |-> END]
    /\ jobs = <<[user |-> 1, hour |-> 9, minute |-> 0]>>
    /\ run = [p \in Invocations |-> IdleFrame]
    /\ calls = [c \in Tasks |-> IdleCall]
    /\ last = NoUpdate

NextEscape ==
    \/ fire(1)
    \/ job_done(1)
    \/ verify_returns(1, Member("creator", "absent"))
    \/ send_returns(1, Failure("ok", << >>))
    \/ sleep_returns(1)

SpecEscape == InitEscape /\ [][NextEscape]_vars

\* ------------------------------------------------------------------ claims
\* the channels post_to_channels has looked up, in the order of the lookups
Attempted(log) ==
    LET lookups == SelectSeq(log, LAMBDA e : e[1] = "get_chat_member")
    IN [i \in 1..Len(lookups) |-> lookups[i][2]]

\* the call went past its precondition tests and entered the loop
Looped(f) == f.post_data # None

Outcome(f) == f.ret[1]

Position(list, ch) == CHOOSE i \in 1..Len(list) : list[i] = ch

\* C1: post_to_channels attempts every channel of the list, whatever fails:
\* while it runs, the channels looked up so far are the first channels of the
\* list, in order, and each of them that is dealt with was counted as a success
\* or recorded as a failure; when it returns, it has looked up the whole list.
C1_EveryChannelAttempted ==
    \A p \in Invocations :
        LET f == run[p]
            list == Channels(f.user)
        IN /\ f.pc \in {"verify", "send", "sleep"} =>
                /\ Attempted(f.log) = Take(list, f.idx)
                /\ f.success_count + Len(f.failed_channels)
                     = IF f.pc = "sleep" THEN f.idx ELSE f.idx - 1
           /\ (f.pc = "done" /\ Looped(f)) =>
                /\ Attempted(f.log) = list
                /\ Outcome(f)[1] + Len(Outcome(f)[2]) = Len(list)

\* the first channel of two failed and the second was still posted to
C1_Witness ==
    \E p \in Invocations :
        /\ run[p].pc = "done" /\ Looped(run[p])
        /\ Len(Channels(run[p].user)) = 2
        /\ Outcome(run[p])[1] = 1
        /\ Len(Outcome(run[p])[2]) = 1
        /\ Outcome(run[p])[2][1][1] = Channels(run[p].user)[1]

NotAMember == Reason("Bot is not a member of this channel", << >>)

IsAdminAnswer(r) ==
    /\ r.tag = "member"
    /\ \/ r.status = "creator"
       \/ r.status = "administrator" /\ r.can_post \in {"true", "absent"}

Failures(f) == IF f.pc = "done" THEN Outcome(f)[2] ELSE f.failed_channels

Successes(f) == IF f.pc = "done" THEN Outcome(f)[1] ELSE f.success_count

C2_Counts ==
    \A p \in Invocations :
        LET f == run[p]
            list == Channels(f.user)
            failed == Outcome(f)[2]
        IN (f.pc = "done" /\ Looped(f)) =>
              /\ Outcome(f)[1] = Len(list) - Len(failed)
              /\ \A i \in 1..Len(failed) : InList(failed[i][1], list)
              /\ \A i, j \in 1..Len(failed) :
                    i < j => Position(list, failed[i][1]) < Position(list, failed[j][1])

C2_Entries ==
    \A p \in Invocations :
        /\ \A r \in MemberResults :
              verify_returns(p, r) =>
                 IF IsAdminAnswer(r)
                 THEN run'[p].pc = "send" /\ Failures(run'[p]) = Failures(run[p])
                 ELSE /\ Failures(run'[p]) =
                           Append(Failures(run[p]), <<run[p].channel[1], verify_bot_admin(r)[2]>>)
                      /\ Successes(run'[p]) = Successes(run[p])
                      /\ r.tag = "Forbidden" =>
                            Failures(run'[p])[Len(Failures(run'[p]))]
                              = <<run[p].channel[1], NotAMember>>
        /\ \A r \in SendResults :
              send_returns(p, r) =>
                 IF r.tag = "ok"
                 THEN /\ Successes(run'[p]) = Successes(run[p]) + 1
                      /\ Failures(run'[p]) = Failures(run[p])
                 ELSE /\ Failures(run'[p]) =
                           Append(Failures(run[p]), <<run[p].channel[1], SendFailureReason(r)>>)
                      /\ Successes(run'[p]) = Successes(run[p])

\* C2: with a draft and N channels of which K fail, post_to_channels returns
\* N-K successes and K failure entries in the order of the list; each answer
\* that fails a channel adds one entry with that channel and the reason of
\* that answer, each successful send adds one success and no entry.
C2_OutcomePerChannel == []C2_Counts /\ [][C2_Entries]_vars

\* channels [-1001, "@pub"], the bot not a member of -1001: one success and
\* one failure, for -1001
C2_Witness ==
    \E p \in Invocations :
        /\ run[p].pc = "done"
        /\ Channels(run[p].user) = <<IntId(-1001), StrId(HandleText)>>
        /\ Outcome(run[p]) = <<1, <<<<IntId(-1001), NotAMember>>>>>>

\* C3: called without a draft or with an empty channel list, post_to_channels
\* returns 0 successes and one failure entry, for no channel, that names what
\* is missing, and it has made no platform call.
C3_PreconditionFailure ==
    \A p \in Invocations :
        LET f == run[p]
            u == f.user
            missing == IF ~HasDraft(u) \/ Draft(u) = EmptyDraft
                       THEN "No post data" ELSE "No channels configured"
        IN (f.pc = "done" /\ (~HasDraft(u) \/ Channels(u) = << >>)) =>
              /\ Outcome(f) = <<0, <<<<NotApplicable, Reason(missing, << >>)>>>>>>
              /\ f.log = << >>

\* a draft and no channel
C3_Witness ==
    \E p \in Invocations :
        /\ run[p].pc = "done"
        /\ HasDraft(run[p].user) /\ Draft(run[p].user).title # None
        /\ Channels(run[p].user) = << >>
        /\ Outcome(run[p])[2][1][2] = Reason("No channels configured", << >>)

Complete(draft) == draft.thumbnail # None /\ draft.video_link # None /\ draft.title # None

\* C4: no call of post_to_channels sends a post made from a draft that lacks
\* the thumbnail, the link or the title.
C4_NoPartialDraftSent ==
    \A p \in Invocations : run[p].pc = "send" => Complete(run[p].post_data[1])

\* what a job does in the step in which it fires, in terms of the draft and of
\* the list of that moment
C5_FireStep ==
    \A j \in 1..Len(jobs) :
        (run[j].pc = "idle" /\ run'[j].pc # "idle") =>
            LET u == jobs[j].user
                f == run'[j]
            IN IF ~HasDraft(u) \/ Draft(u) = EmptyDraft \/ Channels(u) = << >>
               THEN f.pc = "done" /\ f.log = << >> /\ Outcome(f)[1] = 0
               ELSE /\ f.pc = "verify"
                    /\ f.post_data = posts_data[u]
                    /\ f.thumbnail = Draft(u).thumbnail
                    /\ f.caption = format_post(Draft(u))
                    /\ f.channel = Some(Channels(u)[1])

\* C5: the run of a job starts from the draft and the channel list of the
\* moment it fires: it returns at once when the draft or the list is missing
\* then, and otherwise it posts that draft, starting with the first channel
\* of that list.
C5_FireReadsLiveState == [][C5_FireStep]_vars

\* a job posts a finished draft that no schedule was registered with
C5_Witness ==
    \E j \in 1..Len(jobs) :
        /\ run[j].pc = "verify"
        /\ Complete(run[j].post_data[1])
        /\ run[j].post_data[1].schedule_time = None

C6_Transition ==
    \A u \in Users :
        IF conv[u] = END THEN conv'[u] \in {END, THUMBNAIL}
        ELSE conv'[u] \in {conv[u], conv[u] + 1, END} /\ conv'[u] <= CHANNELS

\* C6: the state of a conversation stays, moves to the next state or ends; a
\* conversation starts in THUMBNAIL.
C6_ForwardOnly == [][C6_Transition]_vars

\* the wizard went through its states up to the request for a time
C6_Witness ==
    \E u \in Users : conv[u] = CHANNELS /\ last.op = "handle_post_action"
                     /\ Complete(Draft(u))

WizardSteps ==
    {"receive_thumbnail", "receive_video_link", "receive_title", "handle_post_action",
     "receive_schedule_time"}

C7_FaultStep ==
    \A u \in Users :
        (conv[u] # END /\ last' # last /\ last'.user = u /\ last'.op \in WizardSteps
           /\ last'.fault # "none")
        => conv'[u] = conv[u]

\* C7: a step of the wizard in which a platform call raises leaves the
\* conversation in the state it was in.
C7_ErrorKeepsState == [][C7_FaultStep]_vars

Posted(u) ==
    /\ last.op = "handle_post_action" /\ last.out = "posted" /\ last.user = u
    /\ last.fault = "none" /\ last.ret[1] >= 1 /\ last.ret[2] = 0

\* C8: once post_now has posted to every channel and reported, the user has no
\* draft.
C8_DraftDestroyed == \A u \in Users : (Posted(u) /\ conv[u] = END) => ~HasDraft(u)

C9_Accepted ==
    \A u \in Users : (conv[u] # END /\ HandlerFree) => ENABLED cancel(u, "none")

C9_Effect ==
    \A u \in Users :
        (\E fault \in Faults : cancel(u, fault)) =>
            /\ posts_data'[u] = None
            /\ conv'[u] = END
            /\ user_channels' = user_channels

\* C9: cancel can be handled in every state of the wizard; it leaves the user
\* without draft and without conversation, and the channel lists as they were.
C9_Cancel == []C9_Accepted /\ [][C9_Effect]_vars

\* a user with channels cancelled a wizard
C9_Witness ==
    \E u \in Users :
        /\ last.op = "cancel" /\ last.user = u
        /\ conv[u] = END /\ ~HasDraft(u) /\ Channels(u) # << >>

AcceptedTimes == {T0900, T2359}

RefusedTimes == {T2500, T0960}

ClockTime(text) == IF text = T0900 THEN <<9, 0>> ELSE <<23, 59>>

C10_TimeStep ==
    \A u \in Users, fault \in Faults :
        /\ \A text \in AcceptedTimes :
              receive_schedule_time(u, text, fault) =>
                 /\ jobs' = Append(jobs, [user |-> u, hour |-> ClockTime(text)[1],
                                          minute |-> ClockTime(text)[2]])
                 /\ conv'[u] = END
        /\ \A text \in RefusedTimes :
              receive_schedule_time(u, text, fault) =>
                 /\ conv'[u] = CHANNELS
                 /\ jobs' = jobs
                 /\ posts_data' = posts_data

\* C10: "09:00" and "23:59" register one schedule entry with that time and end
\* the wizard; "25:00" and "9:60" keep the state, register nothing and leave
\* the thumbnail, the link and the title of the draft as they were.
C10_ScheduleTime == [][C10_TimeStep]_vars

\* the handler ran its rejecting branch, which replies with the prompt of the
\* step
Reprompted(l) == l.out = "rejected"

C11_Step ==
    \A u \in Users :
        /\ \A m \in Media, fault \in Faults :
              (~(m.kind \in {"photo", "video", "animation"}) /\ receive_thumbnail(u, m, fault))
              => /\ conv'[u] = THUMBNAIL
                 /\ posts_data' = posts_data
                 /\ fault = "none" => Reprompted(last')
        /\ (conv[u] = THUMBNAIL /\ unmatched_update(u, "text"))
              => /\ conv'[u] = THUMBNAIL
                 /\ posts_data' = posts_data
                 /\ Reprompted(last')

\* C11: in THUMBNAIL, a message that carries no photo, video or animation (a
\* text, an image sent as a document) leaves the state and the draft as they
\* were and is answered with the prompt of the step.
C11_NonMediaReprompts == [][C11_Step]_vars

HttpPrefix == <<"h", "t", "t", "p", ":", "/", "/">>

HttpsPrefix == <<"h", "t", "t", "p", "s", ":", "/", "/">>

BeginsWithScheme(text) == StartsWith(text, HttpPrefix) \/ StartsWith(text, HttpsPrefix)

C12_PrefixStep ==
    \A u \in Users, text \in WizardLinks :
        receive_video_link(u, text, "none") =>
            IF BeginsWithScheme(text)
            THEN /\ posts_data' = [posts_data EXCEPT ![u] =
                                     Some([Draft(u) EXCEPT !.video_link = Some(text)])]
                 /\ conv'[u] = TITLE
            ELSE /\ posts_data' = posts_data
                 /\ conv'[u] = VIDEO_LINK

\* C12, the text as sent: in VIDEO_LINK a text that begins with http:// or
\* https:// is stored as the link and the state becomes TITLE; any other text
\* leaves the state and the draft as they were.
C12_LinkPrefix == [][C12_PrefixStep]_vars

C12_StrippedStep ==
    \A u \in Users, text \in WizardLinks, fault \in Faults :
        receive_video_link(u, text, fault) =>
            IF BeginsWithScheme(Strip(text))
            THEN /\ posts_data' = [posts_data EXCEPT ![u] =
                                     Some([Draft(u) EXCEPT !.video_link = Some(Strip(text))])]
                 /\ conv'[u] = IF fault = "none" THEN TITLE ELSE VIDEO_LINK
            ELSE /\ posts_data' = posts_data
                 /\ conv'[u] = VIDEO_LINK

\* C12, the text without the whitespace around it: in VIDEO_LINK a text that,
\* stripped, begins with http:// or https:// is stored stripped as the link,
\* and the state becomes TITLE when the confirmation is sent and stays
\* VIDEO_LINK when sending it fails; any other text leaves the state and the
\* draft as they were.
C12_LinkStripped == [][C12_StrippedStep]_vars

\* a link was accepted and the wizard asks for the title
C12_Witness ==
    \E u \in Users :
        /\ last.op = "receive_video_link" /\ last.out = "stored" /\ last.fault = "none"
        /\ conv[u] = TITLE
        /\ Draft(u).video_link = Some(HttpsLink)

C13_TextStep ==
    \A u \in Users, text \in WizardTitles :
        receive_title(u, text, "none") =>
            IF Len(text) <= TitleLimit
            THEN /\ posts_data' = [posts_data EXCEPT ![u] =
                                     Some([Draft(u) EXCEPT !.title = Some(text)])]
                 /\ conv'[u] = SCHEDULE_TIME
            ELSE /\ posts_data' = posts_data
                 /\ conv'[u] = TITLE

StoredTitlesShort ==
    \A u \in Users :
        (HasDraft(u) /\ Draft(u).title # None) => Len(Draft(u).title[1]) <= TitleLimit

\* C13, the text as sent: in TITLE a text of at most 100 characters is stored
\* unmodified as the title and the state becomes SCHEDULE_TIME; a longer text
\* leaves the state and the draft as they were; every stored title has at most
\* 100 characters.
C13_TitleAsSent == []StoredTitlesShort /\ [][C13_TextStep]_vars

C13_StrippedStep ==
    \A u \in Users, text \in WizardTitles, fault \in Faults :
        receive_title(u, text, fault) =>
            IF Len(Strip(text)) <= TitleLimit
            THEN /\ posts_data' = [posts_data EXCEPT ![u] =
                                     Some([Draft(u) EXCEPT !.title = Some(Strip(text))])]
                 /\ conv'[u] = IF fault = "none" THEN SCHEDULE_TIME ELSE TITLE
            ELSE /\ posts_data' = posts_data
                 /\ conv'[u] = TITLE

\* C13, the text without the whitespace around it: in TITLE a text that,
\* stripped, has at most 100 characters is stored stripped as the title, and
\* the state becomes SCHEDULE_TIME when the summary is sent and stays TITLE when
\* sending it fails; a text that, stripped, is longer leaves the state and the
\* draft as they were; every stored title has at most 100 characters.
C13_TitleStripped == []StoredTitlesShort /\ [][C13_StrippedStep]_vars

\* a title of exactly 100 characters was stored and the wizard asks what to do
C13_Witness ==
    \E u \in Users :
        /\ last.op = "receive_title" /\ last.out = "stored" /\ last.fault = "none"
        /\ conv[u] = SCHEDULE_TIME
        /\ Draft(u).title = Some(FullTitle)

\* the call of post_to_channels made by handle_post_action is in progress or
\* has returned and not been reported yet
CallOpen == run[0].pc # "idle"

C14_Step ==
    /\ \A u \in Users :
          /\ handle_post_action(u, "post_now", "none") =>
                /\ ~CallOpen /\ CallOpen'
                /\ run'[0].user = u
                /\ conv'[u] = SCHEDULE_TIME
                /\ jobs' = jobs
          /\ post_now_returns(u, "none") =>
                /\ run[0].pc = "done" /\ ~CallOpen'
                /\ conv'[u] = END
          /\ \A fault \in Faults :
                handle_post_action(u, "schedule_post", fault) =>
                   /\ run' = run
                   /\ jobs' = jobs
                   /\ fault = "none" => conv'[u] = CHANNELS
    /\ (~CallOpen /\ CallOpen') =>
          \E u \in Users : handle_post_action(u, "post_now", "none")
    /\ (CallOpen /\ CallOpen') => (conv' = conv /\ last' = last /\ run'[0].user = run[0].user)
    /\ (CallOpen /\ ~CallOpen') =>
          \E fault \in Faults : post_now_returns(run[0].user, fault)

\* C14: in SCHEDULE_TIME, post_now starts one call of post_to_channels for the
\* user; until that call has returned no update is handled and the state
\* stays; the report then ends the conversation, and only post_now starts such
\* a call.  schedule_post moves to CHANNELS, starts no call and adds no job.
C14_DeliveryChoice == [][C14_Step]_vars

\* post_now was reported and the conversation has ended
C14_Witness ==
    \E u \in Users :
        /\ last.op = "handle_post_action" /\ last.out = "posted" /\ last.fault = "none"
        /\ last.user = u /\ last.ret = <<1, 0>>
        /\ conv[u] = END

C15_Step ==
    \A u \in Users, fault \in Faults :
        new_post(u, fault) =>
            IF Len(Channels(u)) = 0
            THEN /\ conv[u] = END /\ conv'[u] = END
                 /\ posts_data' = posts_data
                 /\ fault = "none" => last'.out = "no_channels"
            ELSE /\ posts_data' = [posts_data EXCEPT ![u] = Some(EmptyDraft)]
                 /\ fault = "none" => conv'[u] = THUMBNAIL

\* C15: new_post for a user without a channel leaves the user without
\* conversation and the draft store as it was, and answers with the guidance;
\* for a user with a channel it stores an empty draft and the conversation
\* starts in THUMBNAIL.
C15_EntryNeedsChannel == [][C15_Step]_vars

\* a user who posted and then removed the last channel asks for a new post:
\* no wizard starts and the draft that was there is still there
C15_Witness ==
    \E u \in Users :
        /\ last.op = "new_post" /\ last.out = "no_channels" /\ last.fault = "none"
        /\ last.user = u
        /\ conv[u] = END
        /\ user_channels[u] = Some(<< >>)
        /\ HasDraft(u) /\ Draft(u).title # None

\* ------------------------------------------------------------------ C16
\* C16: whatever add_channel, handle_channel_forward and remove_channel calls
\* have run, and however they overlapped, no user's channel list holds the
\* same ChannelId twice.
C16_NoDuplicateChannel == \A u \in Users : NoRepeat(Channels(u))

\* two adds of the same channel, not yet in the list, are suspended at their
\* platform calls at the same time
C16_Witness ==
    \E c, d \in Tasks :
        /\ c # d
        /\ calls[c].op = "add_channel" /\ calls[c].pc \in {"verify", "info"}
        /\ calls[d].op \in {"add_channel", "handle_channel_forward"}
        /\ calls[d].pc \in {"verify", "info"}
        /\ calls[c].user = calls[d].user
        /\ calls[c].channel = calls[d].channel
        /\ ~InList(calls[c].channel[1], Channels(calls[c].user))

\* ------------------------------------------------------------------ C17
C17_Step(u, channel_input, r) ==
    LET channel == AddChannelId(channel_input)
    IN add_channel(u, channel_input, r) /\ channel_input # NoArgs /\ channel # None =>
          /\ last'.op = "add_channel" /\ last'.fault = "none"
          /\ last'.admin = (IF IsAdminAnswer(r) THEN "yes" ELSE "no")
          /\ IF InList(channel[1], Channels(u))
             THEN last'.out = "exists" /\ user_channels' = user_channels
             ELSE /\ last'.out = "added"
                  /\ Channels(u)' = Append(Channels(u), channel[1])

\* C17: an add of a channel that is in the user's list reports "already
\* exists" with the verification status of the lookup it has just made, fails
\* in no way and leaves the list as it is; an add of a channel that is not in
\* the list reports it added and appends it, so that a second add of it finds
\* it there.
C17_AddIdempotent ==
    [][\A u \in Users, channel_input \in RegistryTexts, r \in RegistryAnswers :
          C17_Step(u, channel_input, r)]_vars

\* "@pub" has been added twice, the second time without the bot's rights
C17_Witness ==
    /\ last.op = "add_channel" /\ last.out = "exists" /\ last.admin = "no"
    /\ Channels(last.user) = <<StrId(HandleText)>>

\* ------------------------------------------------------------------ C18
\* the channel an identifier text denotes in the registry, None when the text
\* denotes none
Denoted(channel_input) == AddChannelId(channel_input)

Without(list, ch) == SelectSeq(list, LAMBDA x : x # ch)

C18_Step(u, channel_input) ==
    LET channel == Denoted(channel_input)
    IN remove_channel(u, channel_input) /\ channel_input # NoArgs =>
          IF channel # None /\ InList(channel[1], Channels(u))
          THEN /\ last'.out = "removed"
               /\ Channels(u)' = Without(Channels(u), channel[1])
          ELSE /\ last'.out = "not_found"
               /\ user_channels' = user_channels

\* C18: a remove reports "removed" and deletes the channel when the channel
\* its identifier denotes is in the user's list, leaving the other entries in
\* their order, and reports "not found" and leaves the list as it is when the
\* channel is not in the list.
C18_RemoveDenoted ==
    [][\A u \in Users, channel_input \in RegistryTexts : C18_Step(u, channel_input)]_vars

\* ------------------------------------------------------------------ C19
\* What each text is to become.  Digits grouped by single underscores are an
\* integer literal to int(), so "-100_1" is the id -1001; "-100x" and "--5"
\* are no integers.
C19_Handle == StrId(<<"@", "p", "u", "b">>)

C19_Expected(channel_input) ==
    CASE channel_input = <<"@", "p", "u", "b">> -> Some(C19_Handle)
      [] channel_input = <<"p", "u", "b">> -> Some(C19_Handle)
      [] channel_input = LinkText -> Some(C19_Handle)
      [] channel_input = OldLinkText -> Some(C19_Handle)
      [] channel_input = <<"-", "1", "0", "0", "1">> -> Some(IntId(-1001))
      [] channel_input = <<"7">> -> Some(IntId(7))
      [] channel_input = <<"-", "1", "0", "0", "_", "1">> -> Some(IntId(-1001))
      [] channel_input = <<"-", "1", "0", "0", "x">> -> None
      [] channel_input = <<"-", "-", "5">> -> None

C19_Step(u, channel_input, r) ==
    LET expected == C19_Expected(channel_input)
    IN add_channel(u, channel_input, r) =>
          IF expected = None
          THEN last'.out = "invalid" /\ user_channels' = user_channels
          ELSE \/ /\ last'.out = "added"
                  /\ Channels(u)' = Append(Channels(u), expected[1])
               \/ /\ last'.out = "exists"
                  /\ InList(expected[1], Channels(u))
                  /\ user_channels' = user_channels

\* C19: an add stores, or finds stored, the normalized identifier: the integer
\* for a numeric text, the "@" handle for a bare name, the handle itself when
\* it begins with "@", "@" and the last path segment for a link; a numeric
\* text that is no integer is refused as invalid and the list stays as it is.
C19_AddNormalizes ==
    [][\A u \in Users, channel_input \in RegistryTexts \ {NoArgs}, r \in RegistryAnswers :
          C19_Step(u, channel_input, r)]_vars

\* a handle and an id are stored, and a malformed id has just been refused
C19_Witness ==
    /\ last.op = "add_channel" /\ last.out = "invalid"
    /\ Channels(last.user) = <<C19_Handle, IntId(-1001)>>

\* ------------------------------------------------------------------ C20
\* The decision table, row by row: "admin", or the reason for "not admin".
\* A flag that is present and holds no value counts as not true.
C20_Table(r) ==
    CASE r.tag = "member" /\ r.status = "creator" -> "admin"
      [] r.tag = "member" /\ r.status = "administrator"
            /\ r.can_post \in {"true", "absent"} -> "admin"
      [] r.tag = "member" /\ r.status = "administrator"
            /\ r.can_post \in {"false", "none"} ->
            Reason("Bot doesn't have 'Post Messages' permission", << >>)
      [] r.tag = "member" /\ r.status \notin {"creator", "administrator"} ->
            Reason("Bot is not an admin (Status: )", <<r.status>>)
      [] r.tag = "Forbidden" -> Reason("Bot is not a member of this channel", << >>)
      [] r.tag = "BadRequest" /\ r.msg = ChatNotFound ->
            Reason("Channel not found or bot was removed", << >>)
      [] r.tag = "BadRequest" /\ r.msg # ChatNotFound ->
            Reason("Cannot access channel: ", r.msg)
      [] r.tag = "Other" -> Reason("Error checking permissions: ", r.msg)

C20_Step(p, r) ==
    verify_returns(p, r) =>
        IF C20_Table(r) = "admin"
        THEN /\ run'[p].pc \in {"send", "sleep"}
             /\ Failures(run'[p]) = Failures(run[p])
        ELSE Failures(run'[p]) =
                Append(Failures(run[p]), <<run[p].channel[1], C20_Table(r)>>)

\* C20: whatever get_chat_member answers, verify_bot_admin returns the verdict
\* of the decision table, and post_to_channels goes on with it: the post is
\* sent for an owner and for an administrator whose flag is true or missing;
\* any other answer, an error included, is recorded with the table's reason.
C20_DecisionTable ==
    [][\A p \in Invocations, r \in MemberResults : C20_Step(p, r)]_vars

\* a lookup has failed with an error that is not "chat not found", and the
\* error text is in the recorded reason
C20_Witness ==
    \E p \in Invocations :
        /\ Len(Failures(run[p])) >= 1
        /\ Failures(run[p])[1][2] = Reason("Cannot access channel: ", NoRights)

\* ------------------------------------------------------------------ C21
C21_Entry(e, ch, c, r) ==
    /\ e.channel = ch
    /\ e.name = (IF c.tag = "ok" THEN c.title ELSE StrOf(ch))
    /\ IF C20_Table(r) = "admin"
       THEN e.status = "yes" /\ e.reason = None
       ELSE e.status = "no" /\ e.reason = Some(C20_Table(r))

C21_Step(u, infos, answers, fault) ==
    manage_channels(u, infos, answers, fault) =>
        /\ user_channels' = user_channels /\ posts_data' = posts_data
        /\ fault = "none" =>
              /\ Len(last'.listing) = Len(Channels(u))
              /\ \A i \in 1..Len(Channels(u)) :
                    C21_Entry(last'.listing[i], Channels(u)[i], infos[i], answers[i])

C21_Listed == last'.op = "manage_channels" /\ last' # last

\* C21: the reply of /channels has one block for every channel of the user's
\* list, in the order of the list, each with the verdict of the membership
\* lookup made for it now; a channel whose name lookup fails is listed under
\* its id, one whose membership lookup fails is listed with the reason, and
\* the channels after it are listed all the same; the channel list and the
\* draft stay as they are.
C21_ListingComplete ==
    [][C21_Listed =>
          \A u \in Users, infos \in [1..MaxChannels -> ChatResults],
             answers \in [1..MaxChannels -> ListingAnswers], fault \in Faults :
                C21_Step(u, infos, answers, fault)]_vars

\* both lookups of the first channel have failed and the second channel is
\* listed after it, while a draft is being written
C21_Witness ==
    /\ last.op = "manage_channels" /\ last.fault = "none"
    /\ Len(last.listing) = 2
    /\ last.listing[1].name = StrOf(Channels(last.user)[1])
    /\ last.listing[1].reason = Some(Reason("Cannot access channel: ", NoRights))
    /\ last.listing[2].status = "yes"
    /\ HasDraft(last.user)

\* ------------------------------------------------------------------ C22
\* the class a recorded send failure tells its reader: the fixed text of the
\* reason is all that tells the classes apart
C22_Class(reason) ==
    IF reason[1] = "Bot is not admin or was removed" THEN "PermissionDenied"
    ELSE IF reason[1] = "Invalid request: " THEN "InvalidRequest"
    ELSE IF reason[1] = "Error: " THEN "Unknown"
    ELSE "ChatMigrated"

C22_Taxonomy(r) ==
    IF r.tag = "Forbidden" THEN "PermissionDenied"
    ELSE IF r.tag = "BadRequest" THEN "InvalidRequest"
    ELSE IF r.tag = "ChatMigrated" THEN "ChatMigrated"
    ELSE "Unknown"

C22_Step(p, r) ==
    send_returns(p, r) /\ r.tag # "ok" =>
        /\ Len(Failures(run'[p])) = Len(Failures(run[p])) + 1
        /\ C22_Class(Failures(run'[p])[Len(Failures(run'[p]))][2]) = C22_Taxonomy(r)

\* C22: the failure recorded for a send that raised has the class of the
\* error: Forbidden is PermissionDenied, BadRequest is InvalidRequest,
\* ChatMigrated is ChatMigrated, and only the other errors are Unknown.
C22_FailureClass ==
    [][\A p \in Invocations, r \in SendResults : C22_Step(p, r)]_vars

\* ------------------------------------------------------------------ C23
\* C23: in every failure a post_to_channels call has recorded, whether it comes
\* from the membership check or from the send, the part of the reason taken
\* from the platform's error text is cut to the fixed length.
C23_ReasonBounded ==
    \A p \in Invocations :
        \A i \in 1..Len(Failures(run[p])) : Len(Failures(run[p])[i][2][2]) <= ErrorCut

\* ------------------------------------------------------------------ C24
C24_Kept == Len(jobs') >= Len(jobs) /\ SubSeq(jobs', 1, Len(jobs)) = jobs

C24_Fires(j) == fire(j) => run'[j].pc # "idle" /\ run'[j].user = jobs[j].user

\* C24: no step of the bot removes or changes a registered job: the jobs are
\* those registered so far, in the order of registration; a fire runs
\* post_to_channels for the user who registered the job, and every
\* registered job fires again and again, whatever the user does meanwhile.
C24_JobsStay ==
    /\ [][C24_Kept /\ \A j \in 1..MaxJobs : C24_Fires(j)]_vars
    /\ \A j \in 1..MaxJobs : [](Len(jobs) < j) \/ []<><<fire(j)>>_vars

\* a job has run after the user cancelled the next draft, has found no draft,
\* and is registered still
C24_Witness ==
    \E j \in 1..Len(jobs) :
        /\ run[j].pc = "done"
        /\ run[j].ret = Some(<<0, <<<<NotApplicable, Reason("No post data", << >>)>>>>>>)
        /\ last.op = "cancel"

\* ------------------------------------------------------------------ C25
\* C25: a call of post_to_channels that ended in the outer except clause has
\* returned an outcome with an entry for the exception, over and above the
\* failures recorded channel by channel.
C25_CriticalRecorded ==
    \A p \in Invocations :
        run[p].pc = "done" /\ run[p].critical =>
            /\ run[p].ret # None
            /\ Len(run[p].ret[1][2]) > Len(run[p].failed_channels)

\* ------------------------------------------------------------------ C26
Reserved(c) == \E i \in 1..Len(escape_chars) : escape_chars[i] = c

\* the escaped title inside a caption: what stands between the two fixed
\* pieces around it
C26_Escaped(caption) ==
    LET k == CHOOSE i \in 1..Len(caption) : caption[i] = "* WATCH NOW:"
    IN SubSeq(caption, 2, k - 1)

\* the text without the backslashes that stand before a reserved character
RECURSIVE C26_Unescape(_)
C26_Unescape(e) ==
    IF e = << >> THEN << >>
    ELSE IF Len(e) >= 2 /\ e[1] = "\\" /\ Reserved(e[2])
    THEN <<e[2]>> \o C26_Unescape(SubSeq(e, 3, Len(e)))
    ELSE <<e[1]>> \o C26_Unescape(Tail(e))

C26_Sending(p) == run[p].pc \in {"verify", "send", "sleep"}

\* C26: in the caption of a post, every reserved character of the title has a
\* backslash right before it, and the title is what is left when these
\* backslashes are taken out; when the title has a reserved character, the
\* escape of the escaped title is another text.
C26_EscapeOnce ==
    \A p \in Invocations :
        C26_Sending(p) =>
            LET title == run[p].post_data[1].title[1]
                e == C26_Escaped(run[p].caption)
            IN /\ \A i \in 1..Len(e) : Reserved(e[i]) => i > 1 /\ e[i - 1] = "\\"
               /\ C26_Unescape(e) = title
               /\ (\E i \in 1..Len(title) : Reserved(title[i])) => escape_markdown(e) # e

\* the title of all reserved characters is being posted
C26_Witness ==
    \E p \in Invocations :
        /\ run[p].pc = "send"
        /\ run[p].post_data[1].title = Some(escape_chars)
        /\ Len(C26_Escaped(run[p].caption)) = 2 * Len(escape_chars)

\* ------------------------------------------------------------------ C27
\* how many times a call has looked the channel up, which is how it begins
\* every attempt
C27_Attempts(log, ch) ==
    Cardinality({i \in 1..Len(log) : log[i] = <<"get_chat_member", ch>>})

C27_Returns(p) ==
    run[p].pc \in {"verify", "send", "sleep"} /\ run'[p].pc = "done" =>
        \A ch \in InChannels(run[p].user) : C27_Attempts(run'[p].log, ch) = 1

\* C27: when a call of post_to_channels that went through the list returns,
\* it has attempted exactly once every channel that has been in the user's
\* list from its beginning to its end.  Where channels are only removed, those
\* are the channels in the list at the end.
C27_StayedAttemptedOnce == [][\A p \in Invocations : C27_Returns(p)]_vars

\* ------------------------------------------------------------------ C28
\* the last update was an add that appended the channel the text denotes
C28_JustAdded(u, channel_input) ==
    /\ last.op = "add_channel" /\ last.user = u /\ last.out = "added"
    /\ Denoted(channel_input) = Some(Channels(u)[Len(Channels(u))])

C28_Step(u, channel_input) ==
    remove_channel(u, channel_input) /\ C28_JustAdded(u, channel_input) =>
        /\ last'.out = "removed"
        /\ Channels(u)' = SubSeq(Channels(u), 1, Len(Channels(u)) - 1)

\* C28: a remove with the text of the add that has just added a channel
\* reports "removed" and leaves the list as it was before the add.
C28_RoundTrip ==
    [][\A u \in Users, channel_input \in RoundTexts : C28_Step(u, channel_input)]_vars

\* ------------------------------------------------------------------ C29
\* the sends a call has made: the entries of its log that carry a caption
C29_Sends(f) == SelectSeq(f.log, LAMBDA e : Len(e) = 4)

\* C29: every send of a call of post_to_channels carries the attachment of the
\* draft the call read when it began and the caption made from that draft,
\* whatever the wizard has done to the user's draft since.
C29_OneDraftPerCall ==
    \A p \in Invocations :
        \A i \in 1..Len(C29_Sends(run[p])) :
            /\ C29_Sends(run[p])[i][3] = run[p].post_data[1].thumbnail[1].file_id
            /\ C29_Sends(run[p])[i][4] = format_post(run[p].post_data[1])

\* a job is at its second send while the user, who has begun another draft
\* meanwhile, has given it another attachment
C29_Witness ==
    \E p \in Invocations :
        /\ run[p].pc = "send"
        /\ Len(C29_Sends(run[p])) = 2
        /\ HasDraft(run[p].user)
        /\ Draft(run[p].user).thumbnail # None
        /\ Draft(run[p].user).thumbnail # run[p].post_data[1].thumbnail

\* ------------------------------------------------------------------ C30
\* job j fires in this step
C30_Fired(j) == j \in 1..Len(jobs) /\ run[j].pc = "idle" /\ run'[j].pc # "idle"

\* the second schedule has been registered
C30_Second == Len(jobs) >= 2

\* the run of job j that begins in this step posts draft
C30_Posts(j, draft) ==
    /\ run'[j].pc = "verify"
    /\ run'[j].post_data = Some(draft)
    /\ run'[j].caption = format_post(draft)
    /\ run'[j].thumbnail = draft.thumbnail

=============================================================================
